---- MODULE Spec2Model ----
(***************************************************************************)
(* Model of the finance backend's analytics layer: the date-range          *)
(* normaliser, the summary computation, the budget utilisation views, the  *)
(* savings advice and the goals plan, over a store of transactions,        *)
(* budgets and goals.                                                      *)
(*                                                                         *)
(* Conventions                                                             *)
(*   - a date is its day ordinal, 0 = 2024-01-01 (a Monday); an absent     *)
(*     (None) date is NoDate;                                              *)
(*   - money is an integer number of cents (the columns are Numeric(12,2));*)
(*     a percentage rounded to 2 decimals is an integer number of          *)
(*     hundredths of a percent;                                            *)
(*   - a text (category name, period label, month label) is the sequence   *)
(*     of its character codes.                                             *)
(***************************************************************************)
EXTENDS Integers, Sequences, FiniteSets, TLC

VARIABLES today, transactions, budgets, goals, req, out

vars == <<today, transactions, budgets, goals, req, out>>

(***************************************************************************)
(* Bounds of the model.                                                    *)
(***************************************************************************)
\* the dates of the range specification are DateBase .. DateBase + MaxSpan
MaxSpan == 33

\* 2024-12-06, so that the dates straddle the turn of the year
DateBase == 300 + 40

NoDate == 0 - 1

\* the store holds at most MaxTx transactions
MaxTx == 2

\* the store holds at most MaxBudgets budget rows
MaxBudgets == 2

\* the store holds at most MaxGoals goals
MaxGoals == 2

\* the rows of all tables together, where several tables are written
MaxRows == 4

(***************************************************************************)
(* The calendar (datetime.date): ordinal <-> year, month, day, weekday,    *)
(* ISO calendar.                                                           *)
(***************************************************************************)
IsLeap(y) == (y % 4 = 0 /\ y % 100 # 0) \/ y % 400 = 0

DaysInYear(y) == IF IsLeap(y) THEN 366 ELSE 365

DaysInMonth(y, m) ==
    IF m = 2 THEN (IF IsLeap(y) THEN 29 ELSE 28)
    ELSE IF m \in {4, 6, 9, 11} THEN 30 ELSE 31

RECURSIVE YearFrom(_, _)
YearFrom(n, y) == IF n < DaysInYear(y) THEN y ELSE YearFrom(n - DaysInYear(y), y + 1)

RECURSIVE DayOfYearFrom(_, _)
DayOfYearFrom(n, y) ==
    IF n < DaysInYear(y) THEN n ELSE DayOfYearFrom(n - DaysInYear(y), y + 1)

RECURSIVE MonthFrom(_, _, _)
MonthFrom(k, y, m) ==
    IF k < DaysInMonth(y, m) THEN m ELSE MonthFrom(k - DaysInMonth(y, m), y, m + 1)

RECURSIVE DayFrom(_, _, _)
DayFrom(k, y, m) ==
    IF k < DaysInMonth(y, m) THEN k + 1 ELSE DayFrom(k - DaysInMonth(y, m), y, m + 1)

\* the year, month and day of every ordinal the model uses, computed once
Calendar ==
    [n \in 0 .. (3 * DateBase) |->
        [year  |-> YearFrom(n, 2024),
         month |-> MonthFrom(DayOfYearFrom(n, 2024), YearFrom(n, 2024), 1),
         day   |-> DayFrom(DayOfYearFrom(n, 2024), YearFrom(n, 2024), 1),
         yday  |-> DayOfYearFrom(n, 2024)]]

\* d.year, d.month, d.day
Year(n) == Calendar[n].year

Month(n) == Calendar[n].month

Day(n) == Calendar[n].day

RECURSIVE DaysBeforeYear(_)
DaysBeforeYear(y) == IF y <= 2024 THEN 0 ELSE DaysBeforeYear(y - 1) + DaysInYear(y - 1)

RECURSIVE DaysBeforeMonth(_, _)
DaysBeforeMonth(y, m) == IF m <= 1 THEN 0 ELSE DaysBeforeMonth(y, m - 1) + DaysInMonth(y, m - 1)

\* date(y, m, d)
MkDate(y, m, d) == DaysBeforeYear(y) + DaysBeforeMonth(y, m) + (d - 1)

\* d.weekday(): Monday is 0
Weekday(n) == n % 7

\* d.isocalendar(): the ISO year and week are those of the week's Thursday
IsoThursday(n) == n - Weekday(n) + 3

IsoYear(n) == Year(IsoThursday(n))

IsoWeek(n) == (Calendar[IsoThursday(n)].yday \div 7) + 1

(***************************************************************************)
(* analytics_service: the date-range normaliser.                           *)
(***************************************************************************)
\* the start and end before normalisation (the four branches on None)
DefaultedStartWindow31(start, end, td) ==
    IF start = NoDate /\ end = NoDate THEN td - 30
    ELSE IF start = NoDate THEN end - 30
    ELSE start

DefaultedStart(start, end, td) ==
    IF start = NoDate /\ end = NoDate THEN td - 29
    ELSE IF start = NoDate THEN end - 29
    ELSE start

DefaultedEndSingleDay(start, end, td) ==
    IF start = NoDate /\ end = NoDate THEN td
    ELSE IF start = NoDate THEN end
    ELSE IF end = NoDate THEN start
    ELSE end

DefaultedEnd(start, end, td) ==
    IF start = NoDate /\ end = NoDate THEN td
    ELSE IF start = NoDate THEN end
    ELSE IF end = NoDate THEN td
    ELSE end

\* if start > end: swap
NoSwap(s, e) == [start |-> s, end |-> e]

Normalised(s, e) == IF s > e THEN [start |-> e, end |-> s] ELSE [start |-> s, end |-> e]

InferredPeriodStrict(period, s, e) ==
    IF period \in {"day", "week", "month"} THEN period
    ELSE IF e - s < 31 THEN "day" ELSE "month"

InferredPeriod(period, s, e) ==
    IF period \in {"day", "week", "month"} THEN period
    ELSE IF e - s <= 31 THEN "day" ELSE "month"

compute_date_range(period, start, end, td) ==
    LET rng == Normalised(DefaultedStart(start, end, td), DefaultedEnd(start, end, td))
    IN  [period |-> InferredPeriod(period, rng.start, rng.end),
         start  |-> rng.start,
         end    |-> rng.end]

(***************************************************************************)
(* Texts: str.lower(), comparison, and the formatting of labels.           *)
(***************************************************************************)
\* c.lower() of one character code: "A".."Z" become "a".."z"
LowerChar(c) == IF c >= 65 /\ c <= 90 THEN c + 32 ELSE c

\* s.lower()
Lower(s) == [i \in 1..Len(s) |-> LowerChar(s[i])]

\* a < b for two strings (lexicographic on the character codes)
RECURSIVE TextLess(_, _)
TextLess(a, b) ==
    IF b = <<>> THEN FALSE
    ELSE IF a = <<>> THEN TRUE
    ELSE IF Head(a) # Head(b) THEN Head(a) < Head(b)
    ELSE TextLess(Tail(a), Tail(b))

\* one decimal digit as a character
Digit(n) == 48 + n

\* f"{n:02d}" and f"{n:04d}", for 0 <= n < 100 and 0 <= n < 10000
Pad2(n) == <<Digit(n \div 10), Digit(n % 10)>>

Pad4(n) == <<Digit(n \div 1000), Digit((n \div 100) % 10), Digit((n \div 10) % 10), Digit(n % 10)>>

\* d.isoformat(): YYYY-MM-DD
IsoFormat(d) == Pad4(Year(d)) \o <<45>> \o Pad2(Month(d)) \o <<45>> \o Pad2(Day(d))

\* f"{d.year:04d}-{d.month:02d}"
MonthLabel(d) == Pad4(Year(d)) \o <<45>> \o Pad2(Month(d))

\* f"{iso_year}-W{iso_week:02d}"
WeekLabel(d) == Pad4(IsoYear(d)) \o <<45, 87>> \o Pad2(IsoWeek(d))

\* the type column's two documented values
TxtExpense == <<101, 120, 112, 101, 110, 115, 101>>

TxtIncome == <<105, 110, 99, 111, 109, 101>>

(***************************************************************************)
(* Arithmetic: sums, abs(), round(x, 2).                                   *)
(***************************************************************************)
RECURSIVE SeqSum(_)
SeqSum(s) == IF s = <<>> THEN 0 ELSE Head(s) + SeqSum(Tail(s))

Abs(x) == IF x < 0 THEN 0 - x ELSE x

\* n / d rounded to the nearest integer, a tie going to the even one (round())
RoundDiv(n, d) ==
    LET q == n \div d
        r == n % d
    IN  IF 2 * r < d THEN q
        ELSE IF 2 * r > d THEN q + 1
        ELSE IF q % 2 = 0 THEN q ELSE q + 1

\* round(x, 2) of an amount held in cents
Round2(cents) == RoundDiv(cents, 1)

(***************************************************************************)
(* analytics_service: the transaction aggregator and the summary.          *)
(***************************************************************************)
\* ORDER BY date ASC, id ASC
TxBefore(a, b) == a.date < b.date \/ (a.date = b.date /\ a.id < b.id)

RECURSIVE InsertOrdered(_, _)
InsertOrdered(sorted, tx) ==
    IF sorted = <<>> THEN <<tx>>
    ELSE IF TxBefore(tx, Head(sorted)) THEN <<tx>> \o sorted
    ELSE <<Head(sorted)>> \o InsertOrdered(Tail(sorted), tx)

RECURSIVE OrderByDateId(_)
OrderByDateId(rows) ==
    IF rows = <<>> THEN <<>>
    ELSE InsertOrdered(OrderByDateId(Tail(rows)), Head(rows))

\* the rows of every user with start <= date <= end
InRangeAnyUser(tx, user_id, s, e) == tx.date >= s /\ tx.date <= e

\* the rows of one user with start <= date <= end
InRange(tx, user_id, s, e) == tx.user_id = user_id /\ tx.date >= s /\ tx.date <= e

fetch_transactions(db, user_id, s, e) ==
    OrderByDateId(SelectSeq(db, LAMBDA tx : InRange(tx, user_id, s, e)))

\* _is_income: the type says income, or the amount is positive
IsIncomeByTypeOnly(tx) == Lower(tx.type) = TxtIncome

is_income(tx) == Lower(tx.type) = TxtIncome \/ tx.amount > 0

\* exp_pos = abs(amt)
ExpSigned(amt) == amt

ExpPos(amt) == Abs(amt)

\* bucket_key(d)
bucket_key(period, d) ==
    IF period = "day" THEN IsoFormat(d)
    ELSE IF period = "week" THEN WeekLabel(d)
    ELSE MonthLabel(d)

IncomeOf(tx) == IF is_income(tx) THEN tx.amount ELSE 0

ExpenseOf(tx) == IF is_income(tx) THEN 0 ELSE ExpPos(tx.amount)

\* total_income, total_expense_abs
TotalIncome(txs) == SeqSum([i \in 1..Len(txs) |-> IncomeOf(txs[i])])

TotalExpense(txs) == SeqSum([i \in 1..Len(txs) |-> ExpenseOf(txs[i])])

\* the bucket key of each fetched row
TxKeys(txs, period) == [i \in 1..Len(txs) |-> bucket_key(period, txs[i].date)]

\* trend[key]["income"], trend[key]["expenses"]
BucketIncome(txs, keys, key) ==
    SeqSum([i \in 1..Len(txs) |-> IF keys[i] = key THEN IncomeOf(txs[i]) ELSE 0])

BucketExpenses(txs, keys, key) ==
    SeqSum([i \in 1..Len(txs) |-> IF keys[i] = key THEN ExpenseOf(txs[i]) ELSE 0])

\* cat_spend[category]
CatSpend(txs, cat) ==
    SeqSum([i \in 1..Len(txs) |->
              IF txs[i].category = cat THEN ExpenseOf(txs[i]) ELSE 0])

\* the keys of cat_spend in insertion order: each category at its first expense
RECURSIVE CatKeys(_, _)
CatKeys(txs, seen) ==
    IF txs = <<>> THEN <<>>
    ELSE IF is_income(Head(txs)) \/ Head(txs).category \in seen THEN CatKeys(Tail(txs), seen)
    ELSE <<Head(txs).category>> \o CatKeys(Tail(txs), seen \cup {Head(txs).category})

\* sorted(keys, key=lower): stable, so equal keys keep their insertion order
RECURSIVE InsertByLower(_, _)
InsertByLower(sorted, k) ==
    IF sorted = <<>> THEN <<k>>
    ELSE IF TextLess(Lower(k), Lower(Head(sorted))) THEN <<k>> \o sorted
    ELSE <<Head(sorted)>> \o InsertByLower(Tail(sorted), k)

RECURSIVE SortedByLower(_)
SortedByLower(keys) ==
    IF keys = <<>> THEN <<>>
    ELSE InsertByLower(SortedByLower(SubSeq(keys, 1, Len(keys) - 1)), keys[Len(keys)])

\* _month_start, _next_month_start
month_start(d) == MkDate(Year(d), Month(d), 1)

next_month_start(d) ==
    LET m == Month(d) + 1
        y == Year(d) + (IF m > 12 THEN 1 ELSE 0)
    IN  MkDate(y, IF m > 12 THEN 1 ELSE m, 1)

TrendPoint(txs, keys, period, cur) ==
    LET k   == bucket_key(period, cur)
        inc == BucketIncome(txs, keys, k)
        exp == BucketExpenses(txs, keys, k)
    IN  [period |-> k, income |-> Round2(inc), expenses |-> Round2(exp), net |-> Round2(inc - exp)]

\* where each of the three loops starts, where it stops, and its step
WeekFirstAtStart(s) == s

WeekFirst(s) == s - Weekday(s)

TrendFirst(period, s) ==
    IF period = "day" THEN s
    ELSE IF period = "week" THEN WeekFirst(s)
    ELSE month_start(s)

\* a loop that stops before its last bucket
TrendLastExclusive(period, e) ==
    IF period \in {"day", "week"} THEN e - 1 ELSE month_start(e) - 1

TrendLast(period, e) == IF period \in {"day", "week"} THEN e ELSE month_start(e)

TrendStep(period, cur) ==
    IF period = "day" THEN cur + 1
    ELSE IF period = "week" THEN cur + 7
    ELSE next_month_start(cur)

\* while cur <= last: append the bucket of cur, step
RECURSIVE TrendLoop(_, _, _, _, _)
TrendLoop(txs, keys, period, cur, last) ==
    IF cur <= last
    THEN <<TrendPoint(txs, keys, period, cur)>>
             \o TrendLoop(txs, keys, period, TrendStep(period, cur), last)
    ELSE <<>>

\* a trend that is built only when rows were fetched
TrendSeriesOfRows(txs, period, s, e) ==
    IF txs = <<>> THEN <<>>
    ELSE TrendLoop(txs, TxKeys(txs, period), period, TrendFirst(period, s), TrendLast(period, e))

TrendSeries(txs, period, s, e) ==
    CHOOSE series \in
        { TrendLoop(txs, keys, period, TrendFirst(period, s), TrendLast(period, e)) :
            keys \in {TxKeys(txs, period)} } : TRUE

CategoryBreakdown(txs) ==
    LET keys == SortedByLower(CatKeys(txs, {}))
    IN  [i \in 1..Len(keys) |-> [category |-> keys[i], amount |-> Round2(CatSpend(txs, keys[i]))]]

\* the body of compute_summary, from the resolved range and the fetched rows
summary_of(dr, txs) ==
    LET income    == TotalIncome(txs)
        expenses  == TotalExpense(txs)
        days_span == (dr.end - dr.start) + 1
        net       == income - expenses
    IN  [range    |-> [start |-> IsoFormat(dr.start), end |-> IsoFormat(dr.end)],
         period   |-> dr.period,
         totals   |-> [income |-> Round2(income), expenses |-> Round2(expenses),
                       net_cash_flow |-> Round2(net)],
         \* a rate in hundredths of a percent
         savings_rate    |-> IF income > 0 THEN RoundDiv(net * 10000, income) ELSE 0,
         avg_daily_spend |-> IF days_span > 0 THEN RoundDiv(expenses, days_span) ELSE 0,
         category_breakdown |-> CategoryBreakdown(txs),
         trend    |-> TrendSeries(txs, dr.period, dr.start, dr.end)]

compute_summary(db, user_id, period, start, end, td) ==
    CHOOSE res \in
        { summary_of(dr, txs) :
            <<dr, txs>> \in
              { <<r, fetch_transactions(db, user_id, r.start, r.end)>> :
                  r \in {compute_date_range(period, start, end, td)} } } : TRUE

(***************************************************************************)
(* The inputs.                                                             *)
(***************************************************************************)
\* a request's period: the three recognised values, absent, unrecognised
Periods == {"day", "week", "month", "None", "year"}

RangeDates == DateBase .. (DateBase + MaxSpan)

RangeTodays == {DateBase, DateBase + (MaxSpan \div 2), DateBase + MaxSpan}

\* no request pending, no response produced
NoReq == [op |-> "none"]

Idle == [op |-> "none"]

\* the requests are served one at a time: a computed response is returned to
\* its caller before the next request is taken
Responses == {"summary", "alerts", "budget_summary", "advice", "goals_plan", "behaviors"}

Quiet == req = NoReq /\ out.op \notin Responses

Return ==
    /\ req = NoReq
    /\ out.op \in Responses
    /\ out' = Idle
    /\ UNCHANGED <<today, transactions, budgets, req, goals>>

DateRangeRequests ==
    [op : {"date_range"}, period : Periods,
     start : RangeDates \cup {NoDate}, end : RangeDates \cup {NoDate}]

(***************************************************************************)
(* The range specification: compute_date_range applied to every            *)
(* combination of period, start and end, each possibly absent.             *)
(***************************************************************************)
InitRange ==
    /\ today \in RangeTodays
    /\ transactions = <<>>
    /\ budgets = <<>>
    /\ goals = <<>>
    /\ req \in DateRangeRequests
    /\ out = Idle

ComputeDateRange ==
    /\ req.op = "date_range"
    /\ out' = [op |-> "date_range", period |-> req.period, start |-> req.start, end |-> req.end,
               res |-> compute_date_range(req.period, req.start, req.end, today)]
    /\ req' = NoReq
    /\ UNCHANGED <<today, transactions, budgets, goals>>

NextRange == ComputeDateRange

SpecRange == InitRange /\ [][NextRange]_vars

(***************************************************************************)
(* The store and its writers: POST /expenses, POST /transactions.          *)
(***************************************************************************)
Users == {1, 2}

\* "Food", "rent"
CatFood == <<70, 111, 111, 100>>

CatRent == <<114, 101, 110, 116>>

Categories == {CatFood, CatRent}

Types == {TxtExpense, TxtIncome}

\* 2024-12-29 (a Sunday, ISO week 2024-W52) and 2025-01-01 (ISO week 2025-W01)
TxDates == {DateBase + 23, DateBase + 26}

\* amounts in cents, of both signs
TxAmounts == {0 - 1250, 700}

\* the categories POST /expenses is called with
ExpenseCategories == {CatFood}

\* 2024-12-31 (a Tuesday) and 2025-02-03 (a Monday): three calendar months
SummaryStarts == {DateBase + 25}

SummaryEnds == {DateBase + 59}

\* 2025-01-01, the date of some transactions
SummaryToday == DateBase + 26

\* the id of a new row: one past the greatest id stored
NextId(db) ==
    IF db = <<>> THEN 1
    ELSE 1 + (CHOOSE m \in {db[i].id : i \in 1..Len(db)} :
                 \A i \in 1..Len(db) : db[i].id <= m)

\* Transaction(user_id=..., date=..., amount=..., category=..., type=...);
\* via records the endpoint that created the row
NewTx(db, user_id, date, amount, category, type, via) ==
    [id |-> NextId(db), user_id |-> user_id, date |-> date, amount |-> amount,
     category |-> category, type |-> type, via |-> via]

\* POST /expenses: 422 unless amount > 0; the row is stored with type "expense"
CreateExpense(users, dates, amounts, categories) ==
    \E user \in users, date \in dates, amount \in amounts, category \in categories :
        /\ Quiet
        /\ Len(transactions) < MaxTx
        /\ IF amount <= 0
           THEN /\ out' = [op |-> "create_expense", status |-> 422]
                /\ UNCHANGED transactions
           ELSE LET tx == NewTx(transactions, user, date, amount, category, TxtExpense, "expenses")
                IN  /\ transactions' = Append(transactions, tx)
                    /\ out' = [op |-> "create_expense", status |-> 201, id |-> tx.id]
        /\ UNCHANGED <<today, budgets, req, goals>>

\* POST /transactions: the row is stored as given, for user 1
CreateTransaction(dates, amounts, categories, types) ==
    \E date \in dates, amount \in amounts, category \in categories, type \in types :
        /\ Quiet
        /\ Len(transactions) < MaxTx
        /\ LET tx == NewTx(transactions, 1, date, amount, category, type, "transactions")
           IN  /\ transactions' = Append(transactions, tx)
               /\ out' = [op |-> "create_transaction", status |-> 201, id |-> tx.id]
        /\ UNCHANGED <<today, budgets, req, goals>>

(***************************************************************************)
(* GET /analytics/summary.                                                 *)
(***************************************************************************)
SummaryPeriods == {"day", "week", "month", "None"}

SummaryRequests ==
    [op : {"summary"}, period : SummaryPeriods,
     start : SummaryStarts \cup {NoDate}, end : SummaryEnds \cup {NoDate}]

ReceiveSummary ==
    /\ Quiet
    /\ req' \in SummaryRequests
    /\ out' = Idle
    /\ UNCHANGED <<today, transactions, budgets, goals>>

\* analytics_summary: user_id = 1; dr and txs record the resolved range and
\* the fetched rows beside the response
Summary ==
    /\ req.op = "summary"
    /\ \E dr \in {compute_date_range(req.period, req.start, req.end, today)} :
         out' = [op |-> "summary", period |-> req.period, start |-> req.start, end |-> req.end,
                 dr  |-> dr,
                 txs |-> fetch_transactions(transactions, 1, dr.start, dr.end),
                 res |-> compute_summary(transactions, 1, req.period, req.start, req.end, today)]
    /\ req' = NoReq
    /\ UNCHANGED <<today, transactions, budgets, goals>>

InitSummary ==
    /\ today = SummaryToday
    /\ transactions = <<>>
    /\ budgets = <<>>
    /\ goals = <<>>
    /\ req = NoReq
    /\ out = Idle

NextSummary ==
    \/ CreateExpense(Users, {SummaryToday}, TxAmounts, ExpenseCategories)
    \/ CreateTransaction(TxDates, TxAmounts, {CatFood}, Types)
    \/ CreateTransaction({SummaryToday}, TxAmounts, {CatRent}, {TxtExpense})
    \/ ReceiveSummary
    \/ Summary
    \/ Return

SpecSummary == InitSummary /\ [][NextSummary]_vars

(***************************************************************************)
(* Budgets: POST /budgets, GET /alerts/overspending, GET /budgets/summary. *)
(***************************************************************************)
IsDigit(c) == c >= 48 /\ c <= 57

DigitsValue(cs) ==
    IF Len(cs) = 4 THEN 1000 * (cs[1] - 48) + 100 * (cs[2] - 48) + 10 * (cs[3] - 48) + (cs[4] - 48)
    ELSE IF Len(cs) = 2 THEN 10 * (cs[1] - 48) + (cs[2] - 48)
    ELSE cs[1] - 48

\* datetime.strptime(month, "%Y-%m"): %Y is four digits, %m is 1[0-2], 0[1-9]
\* or a single [1-9], and nothing may remain
MonthParses(text) ==
    /\ Len(text) \in {6, 7}
    /\ \A i \in 1..4 : IsDigit(text[i])
    /\ text[5] = 45
    /\ IF Len(text) = 7
       THEN \/ (text[6] = 49 /\ text[7] \in {48, 49, 50})
            \/ (text[6] = 48 /\ text[7] \in 49..57)
       ELSE text[6] \in 49..57

\* _parse_month: date(dt.year, dt.month, 1)
parse_month(text) ==
    MkDate(DigitsValue(SubSeq(text, 1, 4)), DigitsValue(SubSeq(text, 6, Len(text))), 1)

\* the orders in which a query without ORDER BY may return the rows S
Orders(S) ==
    {o \in [1..Cardinality(S) -> S] : \A i, j \in 1..Cardinality(S) : i # j => o[i] # o[j]}

SeqToSet(q) == {q[i] : i \in 1..Len(q)}

\* select(Budget).where(user_id == ..., month == ...)
BudgetRows(db, user_id, month) == {b \in SeqToSet(db) : b.user_id = user_id /\ b.month = month}

\* the rows summed by the spend query: the user's, of type "expense", with
\* month_start <= date < next_month_start
SpendRow(tx, user_id, ms, nms) ==
    tx.user_id = user_id /\ tx.type = TxtExpense /\ tx.date >= ms /\ tx.date < nms

\* GROUP BY category, func.sum(amount)
SpendCategories(db, user_id, ms, nms) ==
    {db[i].category : i \in {j \in 1..Len(db) : SpendRow(db[j], user_id, ms, nms)}}

SpendTotal(db, user_id, ms, nms, cat) ==
    SeqSum([i \in 1..Len(db) |->
              IF SpendRow(db[i], user_id, ms, nms) /\ db[i].category = cat
              THEN db[i].amount ELSE 0])

\* spent_by_cat[row.category] = abs(total)
spent_by_cat(db, user_id, ms, nms) ==
    [cat \in SpendCategories(db, user_id, ms, nms) |-> Abs(SpendTotal(db, user_id, ms, nms, cat))]

\* spent_by_cat.get(category, 0.0)
SpentGet(sbc, cat) == IF cat \in DOMAIN sbc THEN sbc[cat] ELSE 0

\* util = spent / budget_amt * 100 if budget_amt > 0 else 0, as a fraction
Utilization(spent, budget_amt) ==
    IF budget_amt > 0 THEN [num |-> spent * 100, den |-> budget_amt] ELSE [num |-> 0, den |-> 1]

\* round(util, 2), in hundredths of a percent
RoundPct(util) == RoundDiv(util.num * 100, util.den)

\* _severity(utilization_pct)
severity(util) ==
    IF util.num >= 100 * util.den THEN "critical"
    ELSE IF util.num >= 90 * util.den THEN "warning"
    ELSE "normal"

\* the item of a budget row (alerts)
AlertItem(month, b, sbc) ==
    LET spent == SpentGet(sbc, b.category)
        util  == Utilization(spent, b.amount)
    IN  [month |-> month, category |-> b.category, budget |-> Round2(b.amount),
         spent |-> Round2(spent), utilization_pct |-> RoundPct(util), severity |-> severity(util)]

\* a category with spend and no budget, reported as fully used
UnbudgetedAlertItemOverspent(month, cat, spent) ==
    [month |-> month, category |-> cat, budget |-> 0, spent |-> Round2(spent),
     utilization_pct |-> IF spent > 0 THEN 10000 ELSE 0,
     severity |-> IF spent > 0 THEN "critical" ELSE "normal"]

\* the item of a category with spend and no budget (alerts)
UnbudgetedAlertItem(month, cat, spent) ==
    [month |-> month, category |-> cat, budget |-> 0, spent |-> Round2(spent),
     utilization_pct |-> 0, severity |-> "normal"]

\* for b in budgets: items.append(...)
BudgetItems(month, brows, sbc) == [i \in 1..Len(brows) |-> AlertItem(month, brows[i], sbc)]

\* for cat, spent in spent_by_cat.items(): if cat in covered: continue
RECURSIVE UnbudgetedItems(_, _, _, _)
UnbudgetedItems(month, cats, sbc, covered) ==
    IF cats = <<>> THEN <<>>
    ELSE IF Head(cats) \in covered THEN UnbudgetedItems(month, Tail(cats), sbc, covered)
    ELSE <<UnbudgetedAlertItem(month, Head(cats), sbc[Head(cats)])>>
             \o UnbudgetedItems(month, Tail(cats), sbc, covered)

\* the alerts' key without the lower(): categories compared by code point
AlertBeforeCaseSensitive(a, b) ==
    \/ a.utilization_pct > b.utilization_pct
    \/ (a.utilization_pct = b.utilization_pct /\ TextLess(a.category, b.category))

\* key=lambda x: (-x.utilization_pct, x.category.lower())
AlertBefore(a, b) ==
    \/ a.utilization_pct > b.utilization_pct
    \/ (a.utilization_pct = b.utilization_pct /\ TextLess(Lower(a.category), Lower(b.category)))

\* key=lambda x: x.category.lower()
CategoryBefore(a, b) == TextLess(Lower(a.category), Lower(b.category))

\* the sort key in use: "alerts" or "category"
ItemBefore(key, a, b) == IF key = "alerts" THEN AlertBefore(a, b) ELSE CategoryBefore(a, b)

\* list.sort / sorted: stable
RECURSIVE InsertItem(_, _, _)
InsertItem(sorted, x, key) ==
    IF sorted = <<>> THEN <<x>>
    ELSE IF ItemBefore(key, x, Head(sorted)) THEN <<x>> \o sorted
    ELSE <<Head(sorted)>> \o InsertItem(Tail(sorted), x, key)

RECURSIVE SortItems(_, _)
SortItems(items, key) ==
    IF items = <<>> THEN <<>>
    ELSE InsertItem(SortItems(SubSeq(items, 1, Len(items) - 1), key), items[Len(items)], key)

\* overspending_alerts, for the budget rows and the spend rows in the order
\* the two queries returned them
overspending_items(month, brows, cats, sbc) ==
    SortItems(BudgetItems(month, brows, sbc)
                  \o UnbudgetedItems(month, cats, sbc, {brows[i].category : i \in 1..Len(brows)}),
              "alerts")

\* the item of a budget row (budget summary)
SummaryItem(month, b, sbc) ==
    LET spent == SpentGet(sbc, b.category)
    IN  [month |-> month, category |-> b.category, budget |-> b.amount, spent |-> spent,
         utilization_pct |-> RoundPct(Utilization(spent, b.amount))]

UnbudgetedSummaryItem(month, cat, spent) ==
    [month |-> month, category |-> cat, budget |-> 0, spent |-> spent, utilization_pct |-> 0]

RECURSIVE UnbudgetedSummaryItems(_, _, _, _)
UnbudgetedSummaryItems(month, cats, sbc, covered) ==
    IF cats = <<>> THEN <<>>
    ELSE IF Head(cats) \in covered THEN UnbudgetedSummaryItems(month, Tail(cats), sbc, covered)
    ELSE <<UnbudgetedSummaryItem(month, Head(cats), sbc[Head(cats)])>>
             \o UnbudgetedSummaryItems(month, Tail(cats), sbc, covered)

budget_summary_items(month, brows, cats, sbc) ==
    [i \in 1..Len(brows) |-> SummaryItem(month, brows[i], sbc)]
        \o UnbudgetedSummaryItems(month, cats, sbc, {brows[i].category : i \in 1..Len(brows)})

\* totals of the budget summary
budget_summary_totals(items) ==
    LET total_budget == Round2(SeqSum([i \in 1..Len(items) |-> items[i].budget]))
        total_spent  == Round2(SeqSum([i \in 1..Len(items) |-> items[i].spent]))
    IN  [budget |-> total_budget, spent |-> total_spent,
         utilization_pct |-> IF total_budget > 0
                             THEN RoundDiv(total_spent * 10000, total_budget) ELSE 0]

\* POST /budgets: update the amount of the row of (user 1, month, category),
\* or insert it; 422 when the month does not parse
UpsertBudget(months, categories, amounts) ==
    \E month \in months, category \in categories, amount \in amounts :
        /\ Quiet
        /\ IF ~MonthParses(month)
           THEN /\ out' = [op |-> "upsert_budget", status |-> 422]
                /\ UNCHANGED budgets
           ELSE LET existing == {i \in 1..Len(budgets) :
                                    /\ budgets[i].user_id = 1
                                    /\ budgets[i].month = month
                                    /\ budgets[i].category = category}
                IN  IF existing # {}
                    THEN LET i == CHOOSE k \in existing : TRUE
                         IN  /\ budgets' = [budgets EXCEPT ![i].amount = amount]
                             /\ out' = [op |-> "upsert_budget", status |-> 201, id |-> budgets[i].id]
                    ELSE /\ Len(budgets) < MaxBudgets
                         /\ budgets' = Append(budgets,
                                [id |-> Len(budgets) + 1, user_id |-> 1, month |-> month,
                                 category |-> category, amount |-> amount])
                         /\ out' = [op |-> "upsert_budget", status |-> 201, id |-> Len(budgets) + 1]
        /\ UNCHANGED <<today, transactions, req, goals>>

ReceiveBudgetRequest(users, months) ==
    /\ Quiet
    /\ req' \in [op : {"alerts"}, user : users, month : months]
                    \cup [op : {"budget_summary"}, user : {1}, month : months]
    /\ out' = Idle
    /\ UNCHANGED <<today, transactions, budgets, goals>>

\* GET /alerts/overspending, for the authenticated user
OverspendingAlerts ==
    /\ req.op = "alerts"
    /\ IF ~MonthParses(req.month)
       THEN out' = [op |-> "alerts", user |-> req.user, month |-> req.month, status |-> 400,
                    items |-> <<>>]
       ELSE \E ms \in {parse_month(req.month)} :
            \E sbc \in {spent_by_cat(transactions, req.user, ms, next_month_start(ms))} :
            \E brows \in Orders(BudgetRows(budgets, req.user, req.month)) :
            \E cats \in Orders(DOMAIN sbc) :
               out' = [op |-> "alerts", user |-> req.user, month |-> req.month, status |-> 200,
                       items |-> overspending_items(req.month, brows, cats, sbc)]
    /\ req' = NoReq
    /\ UNCHANGED <<today, transactions, budgets, goals>>

\* GET /budgets/summary, for user 1
BudgetSummary ==
    /\ req.op = "budget_summary"
    /\ IF ~MonthParses(req.month)
       THEN out' = [op |-> "budget_summary", user |-> 1, month |-> req.month, status |-> 400,
                    items |-> <<>>]
       ELSE \E ms \in {parse_month(req.month)} :
            \E sbc \in {spent_by_cat(transactions, 1, ms, next_month_start(ms))} :
            \E brows \in Orders(BudgetRows(budgets, 1, req.month)) :
            \E cats \in Orders(DOMAIN sbc) :
            \E items \in {budget_summary_items(req.month, brows, cats, sbc)} :
               out' = [op |-> "budget_summary", user |-> 1, month |-> req.month, status |-> 200,
                       items |-> SortItems(items, "category"),
                       totals |-> budget_summary_totals(items)]
    /\ req' = NoReq
    /\ UNCHANGED <<today, transactions, budgets, goals>>

\* "2024-12", "2025-01", and "2025-13", which is no month
TxtDec2024 == <<50, 48, 50, 52, 45, 49, 50>>

TxtJan2025 == <<50, 48, 50, 53, 45, 48, 49>>

TxtMonth13 == <<50, 48, 50, 53, 45, 49, 51>>

\* "2025-1": a one-digit month, which strptime's %m takes
TxtJan2025Short == <<50, 48, 50, 53, 45, 49>>

\* "bills": after "Food" by code point, before it without regard to case
CatBills == <<98, 105, 108, 108, 115>>

BudgetCategories == {CatFood, CatBills}

\* the months budgets are set for, and the months asked about
BudgetMonths == {TxtJan2025}

RequestMonths == {TxtDec2024, TxtJan2025, TxtMonth13, TxtJan2025Short}

\* 2024-12-31 and 2025-01-01
BudgetTxDates == {DateBase + 25, DateBase + 26}

\* 299.99 and -30.00, against budgets of 300.00 and -5.00
BudgetTxAmounts == {29999, 0 - 3000}

BudgetAmounts == {30000, 0 - 500}

InitBudget ==
    /\ today = SummaryToday
    /\ transactions = <<>>
    /\ budgets = <<>>
    /\ goals = <<>>
    /\ req = NoReq
    /\ out = Idle

NextBudget ==
    \/ CreateTransaction(BudgetTxDates, BudgetTxAmounts, BudgetCategories, {TxtExpense})
    \/ UpsertBudget(BudgetMonths, BudgetCategories, BudgetAmounts)
    \/ ReceiveBudgetRequest(Users, RequestMonths)
    \/ OverspendingAlerts
    \/ BudgetSummary
    \/ Return

SpecBudget == InitBudget /\ [][NextBudget]_vars

(***************************************************************************)
(* Savings advice: GET /advice/savings.                                    *)
(***************************************************************************)
\* _last_30_days_range
last_30_days_range(td) == [start |-> td - 29, end |-> td]

\* days_span = (last_date - first_date).days + 1, at least 1
DaysSpan(txs) ==
    IF txs = <<>> THEN 1
    ELSE LET days_span == txs[Len(txs)].date - txs[1].date + 1
         IN  IF days_span <= 0 THEN 1 ELSE days_span

\* total_income += amt, over the income rows
AdviceIncome(txs) ==
    SeqSum([i \in 1..Len(txs) |-> IF is_income(txs[i]) THEN txs[i].amount ELSE 0])

\* the keys of per_cat_spend, in the order the loop first meets them
RECURSIVE SpendKeysFrom(_, _)
SpendKeysFrom(txs, keys) ==
    IF txs = <<>> THEN keys
    ELSE IF is_income(Head(txs)) \/ Head(txs).category \in SeqToSet(keys)
         THEN SpendKeysFrom(Tail(txs), keys)
         ELSE SpendKeysFrom(Tail(txs), Append(keys, Head(txs).category))

\* per_cat_spend[tx.category] += abs(amt), as the list of its items
per_cat_spend(txs) ==
    LET keys == SpendKeysFrom(txs, <<>>)
    IN  [k \in 1..Len(keys) |->
            [category |-> keys[k],
             amount |-> SeqSum([i \in 1..Len(txs) |->
                                   IF ~is_income(txs[i]) /\ txs[i].category = keys[k]
                                   THEN Abs(txs[i].amount) ELSE 0])]]

\* the order of an ascending sort by spend
SpendBeforeAscending(a, b) == a.amount < b.amount

\* key=lambda x: x[1], reverse=True
SpendBefore(a, b) == a.amount > b.amount

\* sorted(...): stable, equal spends stay in dict order
RECURSIVE InsertBySpend(_, _)
InsertBySpend(sorted, x) ==
    IF sorted = <<>> THEN <<x>>
    ELSE IF SpendBefore(x, Head(sorted)) THEN <<x>> \o sorted
    ELSE <<Head(sorted)>> \o InsertBySpend(Tail(sorted), x)

RECURSIVE SortBySpend(_)
SortBySpend(items) ==
    IF items = <<>> THEN <<>>
    ELSE InsertBySpend(SortBySpend(SubSeq(items, 1, Len(items) - 1)), items[Len(items)])

\* pcts = [10.0, 7.0, 5.0, 3.0, 3.0]
pcts == <<10, 7, 5, 3, 3>>

\* top[:5]
TopFive(top) == SubSeq(top, 1, IF Len(top) < Len(pcts) THEN Len(top) ELSE Len(pcts))

\* the reductions of the top categories
Reductions(top) ==
    [i \in 1..Len(top) |->
        [category |-> top[i].category,
         current |-> Round2(top[i].amount),
         suggested_reduction_pct |-> pcts[i],
         reduced_amount |-> RoundDiv(top[i].amount * pcts[i], 100)]]

\* (period or "month").lower(), and "month" unless day, week or month
chosen_period(period) ==
    LET p == IF period = "None" THEN "month"
             ELSE IF period = "DAY" THEN "day" ELSE period
    IN  IF p \in {"day", "week", "month"} THEN p ELSE "month"

\* weekly target taken from the rounded daily target
WeeklyTargetOfRounded(num, den) == 7 * RoundDiv(num, den)

\* round(daily_target_net * 7.0, 2), daily_target_net being num / den
WeeklyTarget(num, den) == RoundDiv(7 * num, den)

\* the body of compute_savings_advice for the window rng
savings_advice_of(db, user_id, period, rng) ==
    LET txs0 == fetch_transactions(db, user_id, rng.start, rng.end)
    IN  LET txs == CHOOSE t \in {txs0} : TRUE
            income == AdviceIncome(txs)
            cat_spend == per_cat_spend(txs)
            days_span == DaysSpan(txs)
        IN  LET total_spend == SeqSum([i \in 1..Len(cat_spend) |-> cat_spend[i].amount])
                reductions == Reductions(TopFive(SortBySpend(cat_spend)))
            IN  LET net == income - total_spend
                    reduction_total ==
                        SeqSum([i \in 1..Len(reductions) |-> reductions[i].reduced_amount])
                    \* daily_target_net = daily_num / daily_den, where
                    \* avg_daily_spend = total_spend / days_span
                    daily_den == 30 * days_span
                IN  LET daily_num == (IF income > 0 THEN income * days_span ELSE 0)
                                         - total_spend * 30 + reduction_total * days_span
                    IN  [period |-> chosen_period(period),
                         range |-> [start |-> IsoFormat(rng.start), end |-> IsoFormat(rng.end)],
                         current |-> [income |-> Round2(income),
                                      expenses |-> Round2(total_spend),
                                      net |-> Round2(net)],
                         targets |-> [daily |-> RoundDiv(daily_num, daily_den),
                                      weekly |-> WeeklyTarget(daily_num, daily_den),
                                      monthly |-> Round2(net + reduction_total)],
                         category_reductions |-> reductions]

\* the advice over a window that follows the period: one day for "day",
\* seven for "week", thirty otherwise
compute_savings_advice_by_period(db, user_id, period, td) ==
    LET days == IF chosen_period(period) = "day" THEN 1
                ELSE IF chosen_period(period) = "week" THEN 7 ELSE 30
    IN  savings_advice_of(db, user_id, period, [start |-> td - (days - 1), end |-> td])

\* compute_savings_advice
compute_savings_advice(db, user_id, period, td) ==
    savings_advice_of(db, user_id, period, last_30_days_range(td))

\* the period arguments of the advice requests: "None" is an absent one
AdvicePeriods == {"day", "None", "year", "DAY"}

\* a client may ask again while it holds the previous advice
ReceiveAdvice(periods) ==
    /\ req = NoReq
    /\ out.op \notin (Responses \ {"advice"})
    /\ req' \in [op : {"advice"}, period : periods]
    /\ out' = IF out.op = "advice" THEN out ELSE Idle
    /\ UNCHANGED <<today, transactions, budgets, goals>>

\* GET /advice/savings: user 1, period defaulting to "month"
SavingsAdvice ==
    /\ req.op = "advice"
    /\ \E period \in {IF req.period = "None" THEN "month" ELSE req.period} :
       \E res \in {compute_savings_advice(transactions, 1, period, today)} :
          out' = [op |-> "advice", asked |-> req.period, res |-> res]
    /\ req' = NoReq
    /\ UNCHANGED <<today, transactions, budgets, goals>>

\* six expense categories: "Rent", "Food", "Fuel", "Gym", "Pets", "Toys"
AdviceCats == <<<<82, 101, 110, 116>>, <<70, 111, 111, 100>>, <<70, 117, 101, 108>>, <<71, 121, 109>>, <<80, 101, 116, 115>>, <<84, 111, 121, 115>>>>

CatSalary == <<83, 97, 108, 97, 114, 121>>

\* the stores of the advice specification: user 1 has recorded an expense
\* in each of the first n categories, one a day back from today, and
\* possibly a salary of 5000.00 on the first day of the window
SeedAmounts == {0 - 1040, 0 - 2000}

SeedIncome == 5000 * 100

SeedExpenses(td, n, amounts) ==
    [i \in 1..n |->
        [id |-> i, user_id |-> 1, date |-> td - i, amount |-> amounts[i],
         category |-> AdviceCats[i], type |-> TxtExpense, via |-> "transactions"]]

SeedSalary(td, n) ==
    [id |-> n + 1, user_id |-> 1, date |-> td - 29, amount |-> SeedIncome,
     category |-> CatSalary, type |-> TxtIncome, via |-> "transactions"]

AdviceStores(td) ==
    UNION {UNION {{SeedExpenses(td, n, amounts),
                   Append(SeedExpenses(td, n, amounts), SeedSalary(td, n))} :
                      amounts \in [1..n -> SeedAmounts]} :
              n \in 0..Len(AdviceCats)}

\* rows written while the advice is being asked for: the day before the
\* window and its first day
AdviceTxDates == {SummaryToday - 30, SummaryToday - 29}

AdviceTxAmounts == {0 - 1040, SeedIncome}

AdviceTxCategories == {AdviceCats[1], CatSalary}

InitAdvice ==
    /\ today = SummaryToday
    /\ transactions \in AdviceStores(SummaryToday)
    /\ budgets = <<>>
    /\ goals = <<>>
    /\ req = NoReq
    /\ out = Idle

NextAdvice ==
    \/ CreateTransaction(AdviceTxDates, AdviceTxAmounts, AdviceTxCategories, {TxtExpense})
    \/ CreateExpense({2}, {SummaryToday}, {1040}, {AdviceCats[1]})
    \/ ReceiveAdvice(AdvicePeriods)
    \/ SavingsAdvice
    \/ Return

SpecAdvice == InitAdvice /\ [][NextAdvice]_vars

(***************************************************************************)
(* Goals: POST /goals, GET /advice/goals-plan.                             *)
(***************************************************************************)
\* None, for a text and for months_to_target
NoText == <<>>

NoMonths == 0 - 1

\* POST /goals: a goal of the authenticated user
CreateGoal(users, targets, currents, target_dates) ==
    \E user \in users, target \in targets, current \in currents, td \in target_dates :
        /\ Quiet
        /\ Len(goals) < MaxGoals
        /\ goals' = Append(goals,
              [id |-> Len(goals) + 1, user_id |-> user, target_amount |-> target,
               current_amount |-> current, target_date |-> td])
        /\ out' = [op |-> "create_goal", status |-> 201, id |-> Len(goals) + 1]
        /\ UNCHANGED <<today, transactions, budgets, req>>

\* select(Goal).where(Goal.user_id == user_id)
GoalRows(db, user_id) == {g \in SeqToSet(db) : g.user_id = user_id}

\* add_months: months times the next month start, then day 28
RECURSIVE StepMonths(_, _)
StepMonths(res, months) ==
    IF months <= 0 THEN res ELSE StepMonths(next_month_start(res), months - 1)

add_months(d, months) ==
    LET res == StepMonths(month_start(d), months)
    IN  MkDate(Year(res), Month(res), 28)

\* a <= b on strings
TextLeq(a, b) == a = b \/ TextLess(a, b)

\* int(months_to_target), plus one when it has a fractional part; the
\* argument is the rounded months_to_target, in hundredths
whole_months(months_to_target) ==
    IF months_to_target > 0 /\ months_to_target % 100 # 0
    THEN months_to_target \div 100 + 1
    ELSE months_to_target \div 100

\* status of a goal with a positive monthly_net, "on_track" for every goal
\* that is not behind
GoalStatusWithoutAhead(g, remaining, projected_completion) ==
    IF g.target_date # NoDate
    THEN IF TextLeq(projected_completion,
                    IsoFormat(MkDate(Year(g.target_date), Month(g.target_date),
                                     IF Day(g.target_date) < 28 THEN Day(g.target_date) ELSE 28)))
         THEN "on_track"
         ELSE IF remaining > 0 THEN "behind" ELSE "on_track"
    ELSE "on_track"

\* status of a goal with a positive monthly_net
GoalStatus(g, remaining, projected_completion) ==
    IF g.target_date # NoDate
    THEN IF TextLeq(projected_completion,
                    IsoFormat(MkDate(Year(g.target_date), Month(g.target_date),
                                     IF Day(g.target_date) < 28 THEN Day(g.target_date) ELSE 28)))
         THEN "ahead"
         ELSE IF remaining > 0 THEN "behind" ELSE "ahead"
    ELSE "on_track"

\* target - current, without the max
RemainingUnclamped(target, current) == target - current

\* remaining = max(0.0, target - current)
Remaining(target, current) == IF target - current > 0 THEN target - current ELSE 0

\* the no-net branch with the projection set to today, as the branch for a
\* missing month count does
NoNetFieldsProjectingToday(remaining, td) ==
    [months_to_target |-> NoMonths, projected_completion |-> IsoFormat(td), status |-> "no_net"]

\* monthly_net <= epsilon: no months, no projection, status "no_net"
NoNetFields(remaining, td) ==
    [months_to_target |-> NoMonths, projected_completion |-> NoText, status |-> "no_net"]

\* monthly_net > epsilon: months, projection and status
NetFields(g, remaining, monthly_net, td) ==
    CHOOSE f \in
        {[months_to_target |-> months_to_target,
          projected_completion |-> projected_completion,
          status |-> GoalStatus(g, remaining, projected_completion)] :
            <<months_to_target, projected_completion>> \in
                {<<m, IsoFormat(add_months(td, whole_months(m)))>> :
                    m \in {IF remaining > 0 THEN RoundDiv(remaining * 100, monthly_net) ELSE 0}}} :
        TRUE

\* the plan of one goal
GoalPlan(g, monthly_net, td) ==
    CHOOSE item \in
        {[id |-> g.id,
          target_amount |-> Round2(g.target_amount),
          current_amount |-> Round2(g.current_amount),
          target_date |-> IF g.target_date # NoDate THEN IsoFormat(g.target_date) ELSE NoText,
          remaining |-> Round2(remaining),
          months_to_target |-> f.months_to_target,
          projected_completion |-> f.projected_completion,
          status |-> f.status] :
            <<remaining, f>> \in
                {<<r, IF monthly_net <= 0 THEN NoNetFields(r, td)
                      ELSE NetFields(g, r, monthly_net, td)>> :
                    r \in {Remaining(g.target_amount, g.current_amount)}}} :
        TRUE

\* sum(cat_spend.values())
TotalSpend(txs) ==
    SeqSum([i \in 1..Len(txs) |-> IF is_income(txs[i]) THEN 0 ELSE Abs(txs[i].amount)])

\* compute_goals_plan over the fetched rows txs
goals_plan_of(txs, grows, rng, td) ==
    CHOOSE res \in
        {[range |-> [start |-> IsoFormat(rng.start), end |-> IsoFormat(rng.end)],
          baseline |-> [monthly_net |-> Round2(monthly_net),
                        avg_daily_spend |-> RoundDiv(TotalSpend(txs), DaysSpan(txs))],
          goals |-> [i \in 1..Len(grows) |-> GoalPlan(grows[i], monthly_net, td)]] :
            monthly_net \in {AdviceIncome(txs) - TotalSpend(txs)}} :
        TRUE

\* compute_goals_plan, for the goals in the order the query returned them
compute_goals_plan(db, grows, user_id, td) ==
    CHOOSE res \in
        {goals_plan_of(txs, grows, last_30_days_range(td), td) :
            txs \in {fetch_transactions(db, user_id, td - 29, td)}} :
        TRUE

ReceiveGoalsPlan ==
    /\ Quiet
    /\ req' = [op |-> "goals_plan"]
    /\ out' = Idle
    /\ UNCHANGED <<today, transactions, budgets, goals>>

\* GET /advice/goals-plan: user 1
GoalsPlan ==
    /\ req.op = "goals_plan"
    /\ \E grows \in Orders(GoalRows(goals, 1)) :
          out' = [op |-> "goals_plan", res |-> compute_goals_plan(transactions, grows, 1, today)]
    /\ req' = NoReq
    /\ UNCHANGED <<today, transactions, budgets, goals>>

\* goals of 1200.00 and 1.00, nothing or 1200.00 saved; target dates
\* 2025-03-31 and 2024-12-15
GoalTargets == {120000, 100}

GoalCurrents == {0, 120000}

GoalTargetDates == {MkDate(2025, 3, 31), MkDate(2024, 12, 15)}

\* the goals that are given a target date are of 1200.00
DatedGoalTargets == {120000}

\* 2024-12-06
GoalsToday == DateBase

\* an income of 400.00 or an expense of 100.00, today
GoalTxAmounts == {40000, 0 - 10000}

InitGoals ==
    /\ today = GoalsToday
    /\ transactions = <<>>
    /\ budgets = <<>>
    /\ goals = <<>>
    /\ req = NoReq
    /\ out = Idle

NextGoals ==
    \/ CreateTransaction({GoalsToday}, GoalTxAmounts, {CatFood}, {TxtExpense})
    \/ CreateGoal({1}, GoalTargets, GoalCurrents, {NoDate})
    \/ CreateGoal({1}, DatedGoalTargets, GoalCurrents, GoalTargetDates)
    \/ CreateGoal({2}, {120000}, {0}, {NoDate})
    \/ ReceiveGoalsPlan
    \/ GoalsPlan
    \/ Return

SpecGoals == InitGoals /\ [][NextGoals]_vars

(***************************************************************************)
(* The goals plan on every day of a month.                                 *)
(***************************************************************************)
\* the days of December 2024
PlanDays == {MkDate(2024, 12, d) : d \in 1..31}

\* goals of 1200.00 with nothing, 800.00 or all of it saved
PlanDayCurrents == {0, 80000, 120000}

InitGoalsDays ==
    /\ today \in PlanDays
    /\ transactions = <<>>
    /\ budgets = <<>>
    /\ goals = <<>>
    /\ req = NoReq
    /\ out = Idle

\* an income of 400.00 dated today
NextGoalsDays ==
    \/ CreateTransaction({today}, {40000}, {CatFood}, {TxtIncome})
    \/ CreateGoal({1}, {120000}, PlanDayCurrents, {NoDate})
    \/ ReceiveGoalsPlan
    \/ GoalsPlan
    \/ Return

SpecGoalsDays == InitGoalsDays /\ [][NextGoalsDays]_vars

(***************************************************************************)
(* Behaviors: GET /analytics/behaviors.                                    *)
(***************************************************************************)
\* no most_expensive_day: None
NoDay == [date |-> NoText, total_spent |-> 0 - 1]

\* the keys of day_spend, in the order the loop first meets them
RECURSIVE DayKeysFrom(_, _)
DayKeysFrom(txs, keys) ==
    IF txs = <<>> THEN keys
    ELSE IF is_income(Head(txs)) \/ Head(txs).date \in SeqToSet(keys)
         THEN DayKeysFrom(Tail(txs), keys)
         ELSE DayKeysFrom(Tail(txs), Append(keys, Head(txs).date))

\* day_spend[d] += exp_pos, as the list of its items
day_spend(txs) ==
    LET keys == DayKeysFrom(txs, <<>>)
    IN  [k \in 1..Len(keys) |->
            [date |-> keys[k],
             total |-> SeqSum([i \in 1..Len(txs) |->
                                  IF ~is_income(txs[i]) /\ txs[i].date = keys[k]
                                  THEN ExpPos(txs[i].amount) ELSE 0])]]

\* a maximum that keeps the last of several equal items
RECURSIVE MaxByTotalLast(_)
MaxByTotalLast(items) ==
    IF Len(items) = 1 THEN items[1]
    ELSE LET rest == MaxByTotalLast(Tail(items))
         IN  IF rest.total >= Head(items).total THEN rest ELSE Head(items)

\* max(day_spend.items(), key=lambda x: x[1]): the first of several equal items
RECURSIVE MaxByTotal(_)
MaxByTotal(items) ==
    IF Len(items) = 1 THEN items[1]
    ELSE LET rest == MaxByTotal(Tail(items))
         IN  IF rest.total > Head(items).total THEN rest ELSE Head(items)

\* most_expensive_day
most_expensive_day(days) ==
    IF days = <<>> THEN NoDay
    ELSE LET top == MaxByTotal(days)
         IN  [date |-> IsoFormat(top.date), total_spent |-> Round2(top.total)]

\* len(income_days)
income_days_count(txs) ==
    Cardinality({txs[i].date : i \in {j \in 1..Len(txs) : is_income(txs[j])}})

\* the body of compute_behaviors, from the resolved range and the fetched rows;
\* cat_spend is accumulated and sorted as the advice's per_cat_spend is
behaviors_of(rng, txs) ==
    LET top_cats == TopFive(SortBySpend(per_cat_spend(txs)))
    IN  [range |-> [start |-> IsoFormat(rng.start), end |-> IsoFormat(rng.end)],
         top_spending_categories |->
             [i \in 1..Len(top_cats) |->
                 [category |-> top_cats[i].category, amount |-> Round2(top_cats[i].amount)]],
         most_expensive_day |-> most_expensive_day(day_spend(txs)),
         income_days_count |-> income_days_count(txs)]

\* compute_behaviors: the range is resolved with no period
compute_behaviors(db, user_id, start, end, td) ==
    CHOOSE res \in
        { behaviors_of(r, fetch_transactions(db, user_id, r.start, r.end)) :
            r \in {compute_date_range("None", start, end, td)} } : TRUE

\* 2024-12-09 and 2024-12-20
BehaviorStarts == {DateBase + 3}

BehaviorEnds == {DateBase + 14}

\* 2025-01-01
BehaviorsToday == DateBase + 26

\* a client may ask again while it holds the previous answer
ReceiveBehaviors ==
    /\ req = NoReq
    /\ out.op \notin (Responses \ {"behaviors"})
    /\ req' \in [op : {"behaviors"}, start : BehaviorStarts \cup {NoDate},
                 end : BehaviorEnds \cup {NoDate}]
    /\ out' = IF out.op = "behaviors" THEN out ELSE Idle
    /\ UNCHANGED <<today, transactions, budgets, goals>>

\* a handler that would drop the rows it has read
BehaviorsDroppingRows ==
    /\ req.op = "behaviors"
    /\ \E dr \in {compute_date_range("None", req.start, req.end, today)} :
         /\ out' = [op |-> "behaviors", asked |-> req,
                    dr  |-> dr,
                    txs |-> fetch_transactions(transactions, 1, dr.start, dr.end),
                    res |-> compute_behaviors(transactions, 1, req.start, req.end, today)]
         /\ transactions' = SelectSeq(transactions, LAMBDA tx : ~InRange(tx, 1, dr.start, dr.end))
    /\ req' = NoReq
    /\ UNCHANGED <<today, budgets, goals>>

\* analytics_behaviors: user_id = 1; dr and txs record the resolved range and
\* the fetched rows beside the response
Behaviors ==
    /\ req.op = "behaviors"
    /\ \E dr \in {compute_date_range("None", req.start, req.end, today)} :
         out' = [op |-> "behaviors", asked |-> req,
                 dr  |-> dr,
                 txs |-> fetch_transactions(transactions, 1, dr.start, dr.end),
                 res |-> compute_behaviors(transactions, 1, req.start, req.end, today)]
    /\ req' = NoReq
    /\ UNCHANGED <<today, transactions, budgets, goals>>

\* 2024-12-10, 2024-12-12 and 2024-12-31
BehaviorTxDates == {DateBase + 4, DateBase + 6, DateBase + 25}

\* expenses of 12.50 and 6.25
BehaviorTxAmounts == {0 - 1250, 0 - 625}

InitBehaviors ==
    /\ today = BehaviorsToday
    /\ transactions = <<>>
    /\ budgets = <<>>
    /\ goals = <<>>
    /\ req = NoReq
    /\ out = Idle

NextBehaviors ==
    \/ CreateTransaction(BehaviorTxDates, BehaviorTxAmounts, {CatFood}, {TxtExpense})
    \/ CreateTransaction({DateBase + 4}, {0 - 625, 700}, {CatRent}, Types)
    \/ CreateExpense({2}, {DateBase + 6}, {1250}, {CatFood})
    \/ ReceiveBehaviors
    \/ Behaviors
    \/ Return

SpecBehaviors == InitBehaviors /\ [][NextBehaviors]_vars

(***************************************************************************)
(* POST /budgets served to concurrent clients: the handler reads in one    *)
(* step and commits in a later one, each in its own database session.      *)
(***************************************************************************)
Clients == {1, 2}

\* no upsert of the client is in flight
NoUpsert == [pc |-> "idle"]

\* a table without the constraint accepts every row
NoUniqueConstraint(db, month, category) == FALSE

\* uq_budgets_user_month_category: a row of user 1 with this month and
\* category is already stored
unique_violation(db, month, category) ==
    \E i \in 1..Len(db) :
        db[i].user_id = 1 /\ db[i].month = month /\ db[i].category = category

\* the inserts that are in flight
PendingInserts == {c \in Clients : req[c].pc = "commit" /\ req[c].existing = 0}

\* upsert_budget up to the SELECT: 422 when the month does not parse, else
\* the id of the existing row, 0 for None, is kept for the second half
UpsertSelect(months, categories, amounts) ==
    \E c \in Clients, month \in months, category \in categories, amount \in amounts :
        /\ req[c] = NoUpsert
        /\ IF ~MonthParses(month)
           THEN /\ out' = [op |-> "upsert_budget", client |-> c, status |-> 422]
                /\ UNCHANGED req
           ELSE LET found == {i \in 1..Len(budgets) :
                                 /\ budgets[i].user_id = 1
                                 /\ budgets[i].month = month
                                 /\ budgets[i].category = category}
                IN  /\ found = {} => Len(budgets) + Cardinality(PendingInserts) < MaxBudgets
                    /\ req' = [req EXCEPT ![c] =
                                 [pc |-> "commit", month |-> month, category |-> category,
                                  amount |-> amount,
                                  existing |-> IF found = {} THEN 0
                                               ELSE budgets[CHOOSE i \in found : TRUE].id]]
                    /\ UNCHANGED out
        /\ UNCHANGED <<today, transactions, budgets, goals>>

\* upsert_budget from "if existing" on: the UPDATE of the row that was found,
\* or the INSERT, which the unique constraint rejects (IntegrityError, 500)
\* when the row has been inserted since the SELECT
UpsertCommit ==
    \E c \in Clients :
        /\ req[c].pc = "commit"
        /\ IF req[c].existing # 0
           THEN /\ budgets' = [i \in 1..Len(budgets) |->
                                  IF budgets[i].id = req[c].existing
                                  THEN [budgets[i] EXCEPT !.amount = req[c].amount]
                                  ELSE budgets[i]]
                /\ out' = [op |-> "upsert_budget", client |-> c, status |-> 201]
           ELSE IF unique_violation(budgets, req[c].month, req[c].category)
           THEN /\ UNCHANGED budgets
                /\ out' = [op |-> "upsert_budget", client |-> c, status |-> 500]
           ELSE /\ budgets' = Append(budgets,
                       [id |-> Len(budgets) + 1, user_id |-> 1, month |-> req[c].month,
                        category |-> req[c].category, amount |-> req[c].amount])
                /\ out' = [op |-> "upsert_budget", client |-> c, status |-> 201]
        /\ req' = [req EXCEPT ![c] = NoUpsert]
        /\ UNCHANGED <<today, transactions, goals>>

InitUpsert ==
    /\ today = DateBase
    /\ transactions = <<>>
    /\ budgets = <<>>
    /\ goals = <<>>
    /\ req = [c \in Clients |-> NoUpsert]
    /\ out = Idle

NextUpsert ==
    \/ UpsertSelect({TxtDec2024, TxtMonth13}, BudgetCategories, BudgetAmounts)
    \/ UpsertCommit

SpecUpsert == InitUpsert /\ [][NextUpsert]_vars

(***************************************************************************)
(* The five analytics endpoints over one store.                            *)
(***************************************************************************)
\* "food"
CatFoodLower == <<102, 111, 111, 100>>

\* 2024-12-26, and 2024-12-16, the date of the rows
AnalyticsToday == DateBase + 20

AnalyticsTxDate == DateBase + 10

\* the requests: a summary and the behaviors over the default range, the
\* utilization of December 2024, the advice and the goals plan
AnalyticsRequests ==
    { [op |-> "summary", period |-> "None", start |-> NoDate, end |-> NoDate],
      [op |-> "summary", period |-> "week", start |-> NoDate, end |-> NoDate],
      [op |-> "behaviors", start |-> NoDate, end |-> NoDate],
      [op |-> "alerts", user |-> 1, month |-> TxtDec2024],
      [op |-> "budget_summary", user |-> 1, month |-> TxtDec2024],
      [op |-> "advice", period |-> "None"],
      [op |-> "goals_plan"] }

ReceiveAnalytics ==
    /\ Quiet
    /\ req' \in AnalyticsRequests
    /\ out' = Idle
    /\ UNCHANGED <<today, transactions, budgets, goals>>

\* the request a response answers
RequestOf(o) ==
    IF o.op = "summary"
    THEN [op |-> "summary", period |-> o.period, start |-> o.start, end |-> o.end]
    ELSE IF o.op = "behaviors" THEN o.asked
    ELSE IF o.op \in {"alerts", "budget_summary"}
         THEN [op |-> o.op, user |-> o.user, month |-> o.month]
    ELSE IF o.op = "advice" THEN [op |-> "advice", period |-> o.asked]
    ELSE [op |-> "goals_plan"]

\* a client repeats the call it holds the answer of
AskAgain ==
    /\ req = NoReq
    /\ out.op \in Responses
    /\ req' = RequestOf(out)
    /\ UNCHANGED <<today, transactions, budgets, goals, out>>

InitAnalytics ==
    /\ today = AnalyticsToday
    /\ transactions = <<>>
    /\ budgets = <<>>
    /\ goals = <<>>
    /\ req = NoReq
    /\ out = Idle

\* the rows of the three tables together
StoreRows == Len(transactions) + Len(budgets) + Len(goals)

NextAnalytics ==
    \/ (StoreRows < MaxRows
          /\ CreateTransaction({AnalyticsTxDate}, {0 - 30000}, {CatFood, CatFoodLower}, {TxtExpense}))
    \/ (StoreRows < MaxRows
          /\ CreateTransaction({AnalyticsTxDate}, {40000}, {CatFood}, {TxtIncome}))
    \/ (StoreRows < MaxRows /\ CreateExpense({2}, {AnalyticsTxDate}, {40000}, {CatFood}))
    \/ (StoreRows < MaxRows /\ UpsertBudget({TxtDec2024}, {CatFood, CatFoodLower}, {30000}))
    \/ (StoreRows < MaxRows /\ CreateGoal({1}, {120000}, {0}, {NoDate}))
    \/ (StoreRows < MaxRows /\ CreateGoal({2}, {120000}, {0}, {NoDate}))
    \/ ReceiveAnalytics
    \/ AskAgain
    \/ Summary
    \/ Behaviors
    \/ OverspendingAlerts
    \/ BudgetSummary
    \/ SavingsAdvice
    \/ GoalsPlan
    \/ Return

SpecAnalytics == InitAnalytics /\ [][NextAnalytics]_vars

(***************************************************************************)
(* Demo seeding: POST /seed/demo/load, DELETE /seed/demo/clear.            *)
(***************************************************************************)
\* "Rent/Mortgage"
CatRentMortgage == <<82, 101, 110, 116, 47, 77, 111, 114, 116, 103, 97, 103, 101>>

\* the month starts of the last months_back months, today's month included
RECURSIVE MonthStarts(_, _)
MonthStarts(cur, months_back) ==
    IF months_back <= 0 THEN {}
    ELSE {cur} \cup MonthStarts(month_start(cur - 1), months_back - 1)

\* the entries one month can get: the recurring rent of 1500.00 on day 1, a
\* salary of 5000.00 on day 25
MonthEntries(mstart) ==
    { [date |-> mstart, amount |-> 0 - 150000, category |-> CatRentMortgage,
       type |-> TxtExpense],
      [date |-> mstart + 24, amount |-> SeedIncome, category |-> CatSalary,
       type |-> TxtIncome] }

\* the lists of entries a load can generate: the generator is random, and
\* its output is cut down to lists of one entry up to size entries
DemoEntries(td, months_back, size) ==
    UNION { [1..n -> UNION {MonthEntries(m) : m \in MonthStarts(month_start(td), months_back)}] :
              n \in 1..size }

\* a clear that deletes nothing
ClearNothing(db) == [db |-> db, deleted |-> 0]

\* clear_demo_data: delete(Transaction).where(Transaction.user_id == user.id),
\* for the demo user, 1; returns the row count
clear_demo_data(db) ==
    [db |-> SelectSeq(db, LAMBDA tx : tx.user_id # 1),
     deleted |-> Cardinality({i \in 1..Len(db) : db[i].user_id = 1})]

\* db.add_all(entries)
RECURSIVE AddAll(_, _)
AddAll(db, entries) ==
    IF entries = <<>> THEN db
    ELSE AddAll(Append(db, NewTx(db, 1, Head(entries).date, Head(entries).amount,
                                 Head(entries).category, Head(entries).type, "seed")),
                Tail(entries))

\* _count_transactions
count_transactions(db, user_id) == Cardinality({i \in 1..Len(db) : db[i].user_id = user_id})

\* the least and the greatest date of the entries
FirstDate(entries) ==
    CHOOSE d \in {entries[i].date : i \in 1..Len(entries)} :
        \A i \in 1..Len(entries) : d <= entries[i].date

LastDate(entries) ==
    CHOOSE d \in {entries[i].date : i \in 1..Len(entries)} :
        \A i \in 1..Len(entries) : d >= entries[i].date

\* load_demo_data, from the generated entries on: clear, bulk save, summary
load_demo_data(db, entries, months_back) ==
    LET saved == AddAll(clear_demo_data(db).db, entries)
    IN  [db |-> saved,
         details |-> [user_id |-> 1,
                      inserted |-> Len(entries),
                      total_transactions |-> count_transactions(saved, 1),
                      from |-> IsoFormat(FirstDate(entries)),
                      to |-> IsoFormat(LastDate(entries)),
                      months |-> months_back]]

\* load_demo: 400 unless 1 <= months_back <= 24; entries records what the
\* generator produced beside the response
LoadDemo(months_backs) ==
    \E months_back \in months_backs :
        /\ Quiet
        /\ IF months_back <= 0 \/ months_back > 24
           THEN /\ out' = [op |-> "load_demo", status |-> 400]
                /\ UNCHANGED transactions
           ELSE \E entries \in DemoEntries(today, months_back, MaxTx) :
                    /\ Len(clear_demo_data(transactions).db) + Len(entries) <= MaxTx
                    /\ \E res \in {load_demo_data(transactions, entries, months_back)} :
                          /\ transactions' = res.db
                          /\ out' = [op |-> "load_demo", status |-> 201,
                                     details |-> res.details, entries |-> entries]
        /\ UNCHANGED <<today, budgets, req, goals>>

\* clear_demo
ClearDemo ==
    /\ Quiet
    /\ \E res \in {clear_demo_data(transactions)} :
          /\ transactions' = res.db
          /\ out' = [op |-> "clear_demo", status |-> 200, deleted |-> res.deleted]
    /\ UNCHANGED <<today, budgets, req, goals>>

\* 2024-12-06
SeedToday == DateBase

InitSeed ==
    /\ today = SeedToday
    /\ transactions = <<>>
    /\ budgets = <<>>
    /\ goals = <<>>
    /\ req = NoReq
    /\ out = Idle

NextSeed ==
    \/ LoadDemo({0, 1, 2})
    \/ ClearDemo
    \/ CreateTransaction({SeedToday}, {0 - 1250, 0 - 625}, {CatFood}, {TxtExpense})
    \/ CreateExpense({2}, {SeedToday}, {700, 1250}, {CatFood})

SpecSeed == InitSeed /\ [][NextSeed]_vars

(***************************************************************************)
(* The summary: totals, classification, trend.                             *)
(***************************************************************************)
SummaryDone == out.op = "summary"

\* the rows a summary fetched, and the sum of f over those with property P
Rows == 1..Len(out.txs)

SumRows(P(_), F(_)) == SeqSum([i \in Rows |-> IF P(out.txs[i]) THEN F(out.txs[i]) ELSE 0])

Column(series, field) == [i \in 1..Len(series) |-> series[i][field]]

StoredIncome(tx)  == tx.type = TxtIncome \/ tx.amount > 0

StoredExpense(tx) == ~StoredIncome(tx)

Amount(tx) == tx.amount

Magnitude(tx) == IF tx.amount < 0 THEN 0 - tx.amount ELSE tx.amount

\* the label of a date under the response's period
LabelOf(d) ==
    IF out.res.period = "day" THEN IsoFormat(d)
    ELSE IF out.res.period = "week" THEN WeekLabel(d)
    ELSE MonthLabel(d)

\* C2: the trend's incomes sum to totals.income and its expenses to
\* totals.expenses; every fetched transaction falls in exactly one bucket of
\* the dense series.
C2_TrendSumsToTotals ==
    SummaryDone =>
        /\ SeqSum(Column(out.res.trend, "income")) = out.res.totals.income
        /\ SeqSum(Column(out.res.trend, "expenses")) = out.res.totals.expenses
        /\ \A i \in Rows :
              Cardinality({j \in 1..Len(out.res.trend) :
                              out.res.trend[j].period = LabelOf(out.txs[i].date)}) = 1

\* a weekly summary over rows holding both an income and an expense, one of
\* them dated on the last day of the range
C2_Witness ==
    /\ SummaryDone
    /\ out.res.period = "week"
    /\ out.res.totals.income # 0
    /\ out.res.totals.expenses # 0
    /\ \E i \in Rows : out.txs[i].date = out.dr.end

\* the Monday on or before d
MondayOnOrBefore(d) == CHOOSE m \in (d - 6)..d : m % 7 = 0

MonthIndex(d) == 12 * Year(d) + Month(d)

\* C3: the trend is dense: one entry per day from start to end; one per
\* calendar month from start's month to end's month; one per 7-day step from
\* the Monday on or before start while the step is <= end; the labels are
\* distinct and a bucket without transactions is all zero.
C3_DenseTrend ==
    SummaryDone =>
        LET t == out.res.trend
            s == out.dr.start
            e == out.dr.end
        IN  /\ out.res.period = "day" =>
                  /\ Len(t) = e - s + 1
                  /\ \A j \in 1..Len(t) : t[j].period = IsoFormat(s + (j - 1))
            /\ out.res.period = "month" =>
                  /\ Len(t) = MonthIndex(e) - MonthIndex(s) + 1
                  /\ t[1].period = MonthLabel(s)
                  /\ t[Len(t)].period = MonthLabel(e)
            /\ out.res.period = "week" =>
                  /\ Len(t) = ((e - MondayOnOrBefore(s)) \div 7) + 1
                  /\ \A j \in 1..Len(t) :
                        t[j].period = WeekLabel(MondayOnOrBefore(s) + 7 * (j - 1))
            /\ \A j, k \in 1..Len(t) : j # k => t[j].period # t[k].period
            /\ \A j \in 1..Len(t) :
                  (\A i \in Rows : LabelOf(out.txs[i].date) # t[j].period) =>
                      (t[j].income = 0 /\ t[j].expenses = 0 /\ t[j].net = 0)

\* a weekly trend over 2024-12-31 .. 2025-02-03: six weeks from Monday
\* 2024-12-30, the last of them holding only the range's last day
C3_Witness ==
    /\ SummaryDone
    /\ out.res.period = "week"
    /\ out.dr.start % 7 # 0
    /\ out.dr.end % 7 = 0
    /\ Len(out.res.trend) = 6
    /\ \E j \in 1..6 : out.res.trend[j].expenses # 0
    /\ out.res.trend[6].income = 0 /\ out.res.trend[6].expenses = 0

ViaExpenses(tx) == tx.via = "expenses"

OtherIncome(tx) == ~ViaExpenses(tx) /\ StoredIncome(tx)

OtherExpense(tx) == ~ViaExpenses(tx) /\ StoredExpense(tx)

\* C5: a row created by the create-expense operation counts as an expense in
\* a summary covering its date: its amount goes to totals.expenses and to its
\* category, and nothing of it goes to totals.income.
C5_CreatedExpenseIsExpense ==
    SummaryDone =>
        /\ out.res.totals.expenses =
               SumRows(ViaExpenses, Amount) + SumRows(OtherExpense, Magnitude)
        /\ out.res.totals.income = SumRows(OtherIncome, Amount)
        /\ \A i \in Rows :
              ViaExpenses(out.txs[i]) =>
                  \E k \in DOMAIN out.res.category_breakdown :
                      out.res.category_breakdown[k].category = out.txs[i].category

(***************************************************************************)
(* Date-range resolution.                                                  *)
(***************************************************************************)
RangeDone == out.op = "date_range"

OnlyStartGiven == out.start # NoDate /\ out.end = NoDate

Recognised == {"day", "week", "month"}

\* C6: for every combination of period, start and end (each possibly absent)
\* the resolved range has start <= end, so its inclusive day span is >= 1.
C6_StartLeEnd ==
    RangeDone => /\ out.res.start <= out.res.end
                 /\ (out.res.end - out.res.start) + 1 >= 1

\* a request whose dates come reversed has been resolved
C6_Witness == RangeDone /\ out.start # NoDate /\ out.end # NoDate /\ out.start > out.end

\* C7: both absent gives [today - 29, today]; only end gives [end - 29, end];
\* both given gives the two dates, swapped when start > end.
C7_Resolution ==
    RangeDone =>
        /\ (out.start = NoDate /\ out.end = NoDate) =>
               (out.res.start = today - 29 /\ out.res.end = today)
        /\ (out.start = NoDate /\ out.end # NoDate) =>
               (out.res.start = out.end - 29 /\ out.res.end = out.end)
        /\ (out.start # NoDate /\ out.end # NoDate /\ out.start <= out.end) =>
               (out.res.start = out.start /\ out.res.end = out.end)
        /\ (out.start # NoDate /\ out.end # NoDate /\ out.start > out.end) =>
               (out.res.start = out.end /\ out.res.end = out.start)

\* a request with only end given has been resolved
C7_Witness == RangeDone /\ out.start = NoDate /\ out.end # NoDate /\ out.res.start = out.end - 29

\* C8 as stated: with only start given the range is [start, today], for every
\* start (before, equal to, or after today).
C8_OnlyStartAsStated ==
    (RangeDone /\ OnlyStartGiven) => (out.res.end = today /\ out.res.start = out.start)

\* C8 amended: with only start given the range is [start, today] when
\* start <= today, and [today, start] (the swap) when start > today.
C8_OnlyStart ==
    (RangeDone /\ OnlyStartGiven) =>
        IF out.start <= today
        THEN out.res.start = out.start /\ out.res.end = today
        ELSE out.res.start = today /\ out.res.end = out.start

\* only start given, and it lies after today
C8_Witness == RangeDone /\ OnlyStartGiven /\ out.start > today /\ out.res.end = out.start

\* C9: a recognised period is returned unchanged; otherwise the period is
\* "day" when end - start of the resolved range is <= 31 and "month" when it
\* is greater; "week" is never inferred.
C9_Period ==
    RangeDone =>
        /\ out.period \in Recognised => out.res.period = out.period
        /\ out.period \notin Recognised =>
               /\ out.res.period = (IF out.res.end - out.res.start <= 31 THEN "day" ELSE "month")
               /\ out.res.period # "week"

\* an unrecognised period over a range of exactly 31 days' difference
C9_Witness ==
    /\ RangeDone
    /\ out.period \notin Recognised
    /\ out.res.end - out.res.start = 31
    /\ out.res.period = "day"

\* the other side of the boundary: a difference of 32 days gives "month"
C9_WitnessMonth ==
    /\ RangeDone
    /\ out.period = "None"
    /\ out.res.end - out.res.start = 32
    /\ out.res.period = "month"

(***************************************************************************)
(* Budget utilization: severity, unbudgeted categories.                    *)
(***************************************************************************)
AlertsDone == out.op = "alerts" /\ out.status = 200

BudgetSummaryDone == out.op = "budget_summary" /\ out.status = 200

UtilizationDone == AlertsDone \/ BudgetSummaryDone

Items == {out.items[i] : i \in 1..Len(out.items)}

\* the first day of the month the response is about, and of the month after
OutMonthStart == parse_month(out.month)

\* the stored rows behind the spend of a category in the response: the user's
\* rows of type "expense" dated in the month
SpendRowsOf(cat) ==
    {i \in 1..Len(transactions) :
        /\ transactions[i].user_id = out.user
        /\ transactions[i].type = TxtExpense
        /\ transactions[i].category = cat
        /\ transactions[i].date >= OutMonthStart
        /\ transactions[i].date < next_month_start(OutMonthStart)}

HasSpend(cat) == SpendRowsOf(cat) # {}

\* the stored budget row of (user, month, category), if any
BudgetRowsOf(cat) ==
    {i \in 1..Len(budgets) :
        /\ budgets[i].user_id = out.user
        /\ budgets[i].month = out.month
        /\ budgets[i].category = cat}

ItemsOf(cat) == {i \in 1..Len(out.items) : out.items[i].category = cat}

\* the severity tier of a reported percentage (hundredths of a percent)
TierOf(pct) ==
    IF pct >= 10000 THEN "critical" ELSE IF pct >= 9000 THEN "warning" ELSE "normal"

\* C1: every item of an overspending-alerts response carries the severity of
\* its own reported, two-decimal utilization_pct: "critical" iff it is >= 100,
\* "warning" iff it is >= 90 and < 100, and "normal" otherwise.
C1_SeverityOfReportedPct ==
    AlertsDone => \A it \in Items : it.severity = TierOf(it.utilization_pct)

\* C10: in an alerts or budget-summary response, every category with
\* expense spend in the month and no budget row of the user for that month
\* is exactly one item, with budget 0 and utilization_pct 0 (and severity
\* "normal" in the alerts), whatever was spent; and the item of a budget row
\* whose amount is <= 0 has utilization_pct 0.
C10_UnbudgetedAndNonPositive ==
    UtilizationDone =>
        /\ \A cat \in BudgetCategories :
              (HasSpend(cat) /\ BudgetRowsOf(cat) = {}) =>
                  /\ Cardinality(ItemsOf(cat)) = 1
                  /\ \A i \in ItemsOf(cat) :
                        /\ out.items[i].budget = 0
                        /\ out.items[i].utilization_pct = 0
                        /\ AlertsDone => out.items[i].severity = "normal"
        /\ \A cat \in BudgetCategories :
              \A b \in BudgetRowsOf(cat) :
                  budgets[b].amount <= 0 =>
                      /\ ItemsOf(cat) # {}
                      /\ \A i \in ItemsOf(cat) : out.items[i].utilization_pct = 0

\* an alerts response with an unbudgeted category that has money spent on
\* it, next to a budget row of a non-positive amount that also has spend
C10_Witness ==
    /\ AlertsDone
    /\ \E cat \in BudgetCategories :
          /\ HasSpend(cat) /\ BudgetRowsOf(cat) = {}
          /\ \E i \in ItemsOf(cat) : out.items[i].spent > 0
    /\ \E cat \in BudgetCategories :
          /\ HasSpend(cat)
          /\ \E b \in BudgetRowsOf(cat) : budgets[b].amount <= 0
          /\ \E i \in ItemsOf(cat) : out.items[i].spent > 0

\* the same in a budget-summary response
C10_WitnessSummary ==
    /\ BudgetSummaryDone
    /\ \E cat \in BudgetCategories :
          /\ HasSpend(cat) /\ BudgetRowsOf(cat) = {}
          /\ \E i \in ItemsOf(cat) : out.items[i].spent > 0
    /\ \E cat \in BudgetCategories :
          /\ HasSpend(cat)
          /\ \E b \in BudgetRowsOf(cat) : budgets[b].amount <= 0
          /\ \E i \in ItemsOf(cat) : out.items[i].spent > 0

\* the sum of the absolute values of the amounts of the stored rows S
RECURSIVE SumOfMagnitudes(_)
SumOfMagnitudes(S) ==
    IF S = {} THEN 0
    ELSE LET i == CHOOSE k \in S : TRUE
         IN  Abs(transactions[i].amount) + SumOfMagnitudes(S \ {i})

\* C11: in a utilization response for month M, the spent of every item is
\* the sum of the absolute values of the amounts of the user's "expense"
\* rows of that category dated from the first day of M up to, and not
\* including, the first day of the month after M.
C11_SpentIsSumOfMagnitudes ==
    UtilizationDone =>
        \A i \in 1..Len(out.items) :
            out.items[i].spent = SumOfMagnitudes(SpendRowsOf(out.items[i].category))

\* a month text of the form YYYY-MM: four digits, a dash, and 01..12
WellFormedMonth(text) ==
    /\ Len(text) = 7
    /\ \A i \in {1, 2, 3, 4, 6, 7} : IsDigit(text[i])
    /\ text[5] = 45
    /\ DigitsValue(SubSeq(text, 6, 7)) \in 1..12

UtilizationAnswered == out.op \in {"alerts", "budget_summary"}

\* C12: a utilization request whose month is not of the form YYYY-MM is
\* answered with HTTP 400 and no items.
C12_MalformedMonthRejected ==
    (UtilizationAnswered /\ ~WellFormedMonth(out.month)) =>
        (out.status = 400 /\ out.items = <<>>)

\* the key order of the alerts: higher utilization_pct first, then the
\* lower-cased category ascending
AlertKeyLeq(a, b) ==
    \/ a.utilization_pct > b.utilization_pct
    \/ /\ a.utilization_pct = b.utilization_pct
       /\ ~TextLess(Lower(b.category), Lower(a.category))

\* C13: the items of an alerts response are in descending order of
\* utilization_pct and, where that is equal, in ascending order of the
\* lower-cased category; the items of a budget-summary response are in
\* ascending order of the lower-cased category.
C13_Ordering ==
    /\ AlertsDone =>
          \A i \in 1..(Len(out.items) - 1) : AlertKeyLeq(out.items[i], out.items[i + 1])
    /\ BudgetSummaryDone =>
          \A i \in 1..(Len(out.items) - 1) :
              ~TextLess(Lower(out.items[i + 1].category), Lower(out.items[i].category))

\* an alerts response of two items with the same utilization_pct whose
\* categories are in the opposite order by code point ("bills", "Food")
C13_Witness ==
    /\ AlertsDone
    /\ Len(out.items) = 2
    /\ out.items[1].utilization_pct = out.items[2].utilization_pct
    /\ TextLess(out.items[2].category, out.items[1].category)
    /\ TextLess(Lower(out.items[1].category), Lower(out.items[2].category))

\* an alerts response where the higher utilization_pct puts "Food" first
C13_WitnessByUtilization ==
    /\ AlertsDone
    /\ Len(out.items) = 2
    /\ out.items[1].utilization_pct > out.items[2].utilization_pct
    /\ TextLess(Lower(out.items[2].category), Lower(out.items[1].category))

(***************************************************************************)
(* Savings advice: reductions, targets, the fixed window.                  *)
(***************************************************************************)
AdviceDone == out.op = "advice"

\* user 1's stored rows dated in [today - 29, today]
WindowRows ==
    {i \in 1..Len(transactions) :
        /\ transactions[i].user_id = 1
        /\ transactions[i].date >= today - 29
        /\ transactions[i].date <= today}

IncomeRow(i) == Lower(transactions[i].type) = TxtIncome \/ transactions[i].amount > 0

WindowIncomeRows == {i \in WindowRows : IncomeRow(i)}

WindowSpendRows == {i \in WindowRows : ~IncomeRow(i)}

WindowSpendCategories == {transactions[i].category : i \in WindowSpendRows}

WindowSpendOf(cat) ==
    SumOfMagnitudes({i \in WindowSpendRows : transactions[i].category = cat})

\* the signed sum of the amounts of the stored rows S
RECURSIVE SumOfAmounts(_)
SumOfAmounts(S) ==
    IF S = {} THEN 0
    ELSE LET i == CHOOSE k \in S : TRUE
         IN  transactions[i].amount + SumOfAmounts(S \ {i})

WindowIncome == SumOfAmounts(WindowIncomeRows)

WindowExpense == SumOfMagnitudes(WindowSpendRows)

\* the days from the first to the last row of the window, the aggregator's
\* divisor of avg_daily_spend
WindowDaysSpanned ==
    IF WindowRows = {} THEN 1
    ELSE LET first == CHOOSE i \in WindowRows :
                          \A j \in WindowRows : transactions[i].date <= transactions[j].date
             last  == CHOOSE i \in WindowRows :
                          \A j \in WindowRows : transactions[i].date >= transactions[j].date
         IN  transactions[last].date - transactions[first].date + 1

ReductionTable == <<10, 7, 5, 3, 3>>

OutReductions == out.res.category_reductions

\* C14: category_reductions has min(5, number of spending categories of the
\* window) entries, for distinct categories, each with the category's spend
\* as current, in descending order of current and no unlisted category
\* spending more than a listed one; the entry at rank i has the i-th
\* percentage of [10, 7, 5, 3, 3] and reduced_amount = round(current * pct / 100, 2).
C14_Reductions ==
    AdviceDone =>
        /\ Len(OutReductions) =
              (IF Cardinality(WindowSpendCategories) < 5
               THEN Cardinality(WindowSpendCategories) ELSE 5)
        /\ \A i \in 1..Len(OutReductions) :
              /\ OutReductions[i].category \in WindowSpendCategories
              /\ OutReductions[i].current = WindowSpendOf(OutReductions[i].category)
              /\ OutReductions[i].suggested_reduction_pct = ReductionTable[i]
              /\ OutReductions[i].reduced_amount
                    = RoundDiv(OutReductions[i].current * ReductionTable[i], 100)
              /\ \A j \in 1..Len(OutReductions) :
                    /\ i < j => OutReductions[i].current >= OutReductions[j].current
                    /\ i # j => OutReductions[i].category # OutReductions[j].category
              /\ \A cat \in WindowSpendCategories :
                    (\A j \in 1..Len(OutReductions) : OutReductions[j].category # cat)
                        => WindowSpendOf(cat) <= OutReductions[i].current

\* advice over six spending categories of unequal spend: five are listed
C14_Witness ==
    /\ AdviceDone
    /\ Cardinality(WindowSpendCategories) = 6
    /\ Len(OutReductions) = 5
    /\ OutReductions[1].current > OutReductions[5].current
    /\ \E cat \in WindowSpendCategories : WindowSpendOf(cat) < OutReductions[1].current

OutReductionTotal ==
    SeqSum([i \in 1..Len(OutReductions) |-> OutReductions[i].reduced_amount])

\* daily_target_net as a fraction: daily_current_net + reduction_total / 30,
\* with avg_daily_spend = WindowExpense / WindowDaysSpanned
DailyTargetDen == 30 * WindowDaysSpanned

DailyTargetNum ==
    (IF WindowIncome > 0 THEN WindowIncome * WindowDaysSpanned ELSE 0)
        - WindowExpense * 30 + OutReductionTotal * WindowDaysSpanned

\* C15: targets.monthly = (income - total_expense) + reduction_total;
\* targets.daily = round(daily_current_net + reduction_total / 30, 2), where
\* daily_current_net = income / 30 - avg_daily_spend if income > 0 and
\* -avg_daily_spend otherwise; targets.weekly = round(7 * the unrounded
\* daily target, 2).
C15_Targets ==
    AdviceDone =>
        /\ out.res.targets.monthly = (WindowIncome - WindowExpense) + OutReductionTotal
        /\ out.res.targets.daily = RoundDiv(DailyTargetNum, DailyTargetDen)
        /\ out.res.targets.weekly = RoundDiv(7 * DailyTargetNum, DailyTargetDen)

\* advice over a window that holds one income of 5000.00 and nothing else:
\* no reductions, daily target round(5000 / 30, 2) = 166.67
C15_Witness ==
    /\ AdviceDone
    /\ Cardinality(WindowRows) = 1
    /\ WindowIncome = 500000
    /\ WindowExpense = 0
    /\ OutReductions = <<>>
    /\ out.res.targets.daily = 16667
    /\ out.res.targets.monthly = 500000

\* advice with income, expenses and reductions all present
C15_WitnessMixed ==
    /\ AdviceDone
    /\ WindowIncome > 0
    /\ WindowExpense > 0
    /\ WindowDaysSpanned > 1
    /\ OutReductionTotal > 0

\* the advice without its period label
AdviceBody(res) ==
    [range |-> res.range, current |-> res.current, targets |-> res.targets,
     category_reductions |-> res.category_reductions]

\* C16: two advice calls in a row on the same store and day return the
\* same range, current, targets and category_reductions whatever their
\* period arguments, and the range is [today - 29, today].
C16_PeriodIsOnlyALabel ==
    [][(out.op = "advice" /\ out'.op = "advice")
          => /\ AdviceBody(out'.res) = AdviceBody(out.res)
             /\ out'.res.range = [start |-> IsoFormat(today - 29), end |-> IsoFormat(today)]]_vars

\* an advice with reductions is held while the next call, with another
\* period argument, is pending
C16_Witness ==
    /\ out.op = "advice"
    /\ req.op = "advice"
    /\ req.period # out.asked
    /\ out.res.category_reductions # <<>>
    /\ out.res.current.income > 0

(***************************************************************************)
(* Goals plan: baseline, remaining, projection, status.                    *)
(***************************************************************************)
PlanDone == out.op = "goals_plan"

PlanGoals == out.res.goals

\* the stored goal a plan item is about
StoredGoal(item) == CHOOSE g \in SeqToSet(goals) : g.id = item.id

\* income minus expenses over user 1's rows of the trailing 30 days
BaselineNet == WindowIncome - WindowExpense

\* every goal of user 1 is in the plan once, and nothing else is
PlanCoversGoals ==
    /\ \A i \in 1..Len(PlanGoals) :
          \E g \in SeqToSet(goals) : g.id = PlanGoals[i].id /\ g.user_id = 1
    /\ \A g \in SeqToSet(goals) :
          g.user_id = 1 => Cardinality({i \in 1..Len(PlanGoals) : PlanGoals[i].id = g.id}) = 1

ExpectedRemaining(g) ==
    IF g.target_amount > g.current_amount THEN g.target_amount - g.current_amount ELSE 0

\* C18 as stated: remaining = max(0, target - current); with a positive
\* monthly_net, months_to_target = round(remaining / monthly_net, 2), and
\* it is 0 exactly when remaining is 0.
C18_MonthsZeroIffNothingRemains ==
    PlanDone =>
        \A i \in 1..Len(PlanGoals) :
            /\ PlanGoals[i].remaining = ExpectedRemaining(StoredGoal(PlanGoals[i]))
            /\ PlanGoals[i].remaining >= 0
            /\ BaselineNet > 0 =>
                  /\ PlanGoals[i].months_to_target
                        = RoundDiv(PlanGoals[i].remaining * 100, BaselineNet)
                  /\ (PlanGoals[i].months_to_target = 0) <=> (PlanGoals[i].remaining = 0)

\* C18, amended: remaining = max(0, target - current), never negative; with
\* a positive monthly_net, months_to_target = round(remaining / monthly_net, 2),
\* which is 0 when remaining is 0 and also when remaining / monthly_net is
\* below 0.005, and positive when remaining / monthly_net is above 0.005.
C18_RemainingAndMonths ==
    PlanDone =>
        \A i \in 1..Len(PlanGoals) :
            /\ PlanGoals[i].remaining = ExpectedRemaining(StoredGoal(PlanGoals[i]))
            /\ PlanGoals[i].remaining >= 0
            /\ BaselineNet > 0 =>
                  /\ PlanGoals[i].months_to_target
                        = RoundDiv(PlanGoals[i].remaining * 100, BaselineNet)
                  /\ PlanGoals[i].remaining * 1000 < 5 * BaselineNet
                        => PlanGoals[i].months_to_target = 0
                  /\ PlanGoals[i].remaining * 1000 > 5 * BaselineNet
                        => PlanGoals[i].months_to_target > 0

\* a plan under a positive baseline with a goal saved beyond its target and
\* a goal whose months_to_target has a fractional part
C18_Witness ==
    /\ PlanDone
    /\ BaselineNet > 0
    /\ \E i \in 1..Len(PlanGoals) :
          /\ StoredGoal(PlanGoals[i]).current_amount > StoredGoal(PlanGoals[i]).target_amount
          /\ PlanGoals[i].remaining = 0
    /\ \E i \in 1..Len(PlanGoals) :
          /\ PlanGoals[i].remaining > 0
          /\ PlanGoals[i].months_to_target % 100 # 0

\* the ceiling of remaining / monthly_net
CeilingMonths(remaining, monthly_net) == (remaining + monthly_net - 1) \div monthly_net

\* day 28 of the month that is n months after the month of d
Day28After(d, n) ==
    LET m == (Year(d) * 12 + (Month(d) - 1)) + n
    IN  MkDate(m \div 12, (m % 12) + 1, 28)

\* C19: with a positive monthly_net, projected_completion is day 28 of the
\* month N months after today's, N the ceiling of remaining / monthly_net.
C19_ProjectionIsCeiling ==
    (PlanDone /\ BaselineNet > 0) =>
        \A i \in 1..Len(PlanGoals) :
            PlanGoals[i].projected_completion
                = IsoFormat(Day28After(today, CeilingMonths(PlanGoals[i].remaining, BaselineNet)))

\* the date a plan item's projected_completion stands for
ProjectedDate(item) ==
    MkDate(DigitsValue(SubSeq(item.projected_completion, 1, 4)),
           DigitsValue(SubSeq(item.projected_completion, 6, 7)),
           DigitsValue(SubSeq(item.projected_completion, 9, 10)))

\* the target date moved back to day 28 when it is later in its month
ClampedTarget(d) == MkDate(Year(d), Month(d), IF Day(d) < 28 THEN Day(d) ELSE 28)

ExpectedStatus(item) ==
    LET g == StoredGoal(item)
    IN  IF g.target_date = NoDate THEN "on_track"
        ELSE IF ProjectedDate(item) <= ClampedTarget(g.target_date) THEN "ahead"
        ELSE IF item.remaining > 0 THEN "behind"
        ELSE "ahead"

C20_WitnessBehind ==
    /\ PlanDone
    /\ BaselineNet > 0
    /\ \E i \in 1..Len(PlanGoals) : PlanGoals[i].status = "behind"
    /\ \E i \in 1..Len(PlanGoals) : PlanGoals[i].status = "on_track"

(***************************************************************************)
(* Behaviors: the most expensive day.                                      *)
(***************************************************************************)
BehaviorsDone == out.op = "behaviors"

\* user 1's stored expense rows dated in the resolved range
RangeExpenseRows ==
    {i \in 1..Len(transactions) :
        /\ transactions[i].user_id = 1
        /\ transactions[i].date >= out.dr.start
        /\ transactions[i].date <= out.dr.end
        /\ ~IncomeRow(i)}

RangeExpenseDays == {transactions[i].date : i \in RangeExpenseRows}

\* the total expense of a day: the sum of the absolute values of its rows
DayTotal(d) == SumOfMagnitudes({i \in RangeExpenseRows : transactions[i].date = d})

\* C21: most_expensive_day is none when the range holds no expense row of
\* the user; otherwise it names the earliest of the days whose total expense
\* (the sum of the absolute values of that day's expense rows) is maximal
\* over the range, with that total.
C21_MostExpensiveDay ==
    BehaviorsDone =>
        IF RangeExpenseRows = {}
        THEN out.res.most_expensive_day = NoDay
        ELSE \E d \in RangeExpenseDays :
                /\ \A e \in RangeExpenseDays : DayTotal(e) <= DayTotal(d)
                /\ \A e \in RangeExpenseDays : DayTotal(e) = DayTotal(d) => d <= e
                /\ out.res.most_expensive_day =
                       [date |-> IsoFormat(d), total_spent |-> DayTotal(d)]

\* two days share the maximal total and the earlier one is named
C21_Witness ==
    /\ BehaviorsDone
    /\ \E d, e \in RangeExpenseDays :
          /\ d < e
          /\ DayTotal(d) = DayTotal(e)
          /\ out.res.most_expensive_day.date = IsoFormat(d)

\* a range with rows of the user, none of them an expense, and a range
\* that leaves the user's expenses out
C21_WitnessNone ==
    /\ BehaviorsDone
    /\ out.res.most_expensive_day = NoDay
    /\ out.txs # <<>>
    /\ \E i \in 1..Len(transactions) :
          transactions[i].user_id = 1 /\ ~IncomeRow(i)

(***************************************************************************)
(* The summary of an empty range, and the sign of the breakdown.           *)
(***************************************************************************)
\* user 1's stored rows dated in the resolved range of the summary
SummaryRangeRows ==
    {i \in 1..Len(transactions) :
        /\ transactions[i].user_id = 1
        /\ transactions[i].date >= out.dr.start
        /\ transactions[i].date <= out.dr.end}

\* the number of buckets of the resolved range under the response's period
BucketCount ==
    IF out.res.period = "day" THEN out.dr.end - out.dr.start + 1
    ELSE IF out.res.period = "week"
         THEN ((out.dr.end - MondayOnOrBefore(out.dr.start)) \div 7) + 1
    ELSE MonthIndex(out.dr.end) - MonthIndex(out.dr.start) + 1

\* C22: a summary over a range that holds no row of the user is answered
\* with income, expenses, net_cash_flow, savings_rate and avg_daily_spend
\* all 0, an empty category_breakdown, and a trend of one all-zero entry
\* for every bucket of the range.
C22_EmptySummary ==
    (SummaryDone /\ SummaryRangeRows = {}) =>
        /\ out.res.totals = [income |-> 0, expenses |-> 0, net_cash_flow |-> 0]
        /\ out.res.savings_rate = 0
        /\ out.res.avg_daily_spend = 0
        /\ out.res.category_breakdown = <<>>
        /\ Len(out.res.trend) = BucketCount
        /\ \A j \in 1..Len(out.res.trend) :
              /\ out.res.trend[j].income = 0
              /\ out.res.trend[j].expenses = 0
              /\ out.res.trend[j].net = 0

\* the store holds rows, of another user or outside the range, and the
\* range has several buckets
C22_Witness ==
    /\ SummaryDone
    /\ SummaryRangeRows = {}
    /\ transactions # <<>>
    /\ Len(out.res.trend) > 1
    /\ \E i \in 1..Len(transactions) : transactions[i].user_id = 1

\* C23: every value of the summary's category_breakdown is >= 0, whatever
\* the signs of the stored amounts.
C23_BreakdownNonNegative ==
    SummaryDone =>
        \A k \in DOMAIN out.res.category_breakdown :
            out.res.category_breakdown[k].amount >= 0

\* a breakdown over rows stored with a negative amount, beside a row
\* stored with a positive one
C23_Witness ==
    /\ SummaryDone
    /\ out.res.category_breakdown # <<>>
    /\ \E i \in Rows : out.txs[i].amount < 0 /\ StoredExpense(out.txs[i])
    /\ \E i \in Rows : out.txs[i].amount > 0
    /\ \E k \in DOMAIN out.res.category_breakdown : out.res.category_breakdown[k].amount > 0

(***************************************************************************)
(* The analytics computations: determinism, scoping, frame.                *)
(***************************************************************************)
\* a repeated call is being served: the pending request is the one the held
\* response answered, and no writer has run in between
Repeated == req # NoReq /\ out.op = req.op /\ RequestOf(out) = req

RepeatedCallSameItems ==
    [][Repeated =>
          IF out.op \in {"summary", "behaviors", "advice"} THEN out' = out
          ELSE IF out.op \in {"alerts", "budget_summary"}
               THEN /\ out'.status = out.status
                    /\ Len(out'.items) = Len(out.items)
                    /\ SeqToSet(out'.items) = SeqToSet(out.items)
                    /\ (out.op = "budget_summary" /\ out.status = 200)
                           => out'.totals = out.totals
          ELSE /\ out'.res.range = out.res.range
               /\ out'.res.baseline = out.res.baseline
               /\ Len(out'.res.goals) = Len(out.res.goals)
               /\ SeqToSet(out'.res.goals) = SeqToSet(out.res.goals)]_vars

\* the rows of a table that belong to user u
OwnRows(db, u) == SelectSeq(db, LAMBDA r : r.user_id = u)

ScopedOps == {"summary", "behaviors", "advice", "goals_plan"}

\* the result of the computation a response answers, called for user u over
\* the transactions txs and the goal rows grows
ResultFor(o, u, txs, grows) ==
    IF o.op = "summary" THEN compute_summary(txs, u, o.period, o.start, o.end, today)
    ELSE IF o.op = "behaviors" THEN compute_behaviors(txs, u, o.asked.start, o.asked.end, today)
    ELSE IF o.op = "advice"
         THEN compute_savings_advice(txs, u, IF o.asked = "None" THEN "month" ELSE o.asked, today)
    ELSE compute_goals_plan(txs, grows, u, today)

\* C25: the result of summary, behaviors, savings advice and goals plan for
\* user u is the result over the store reduced to u's own transactions and
\* goals, so rows of other users, whatever they are, do not change it; and
\* the response served is that result for user 1.
C25_UserScoping ==
    (out.op \in ScopedOps) =>
        /\ \A u \in Users :
              /\ GoalRows(goals, u) = GoalRows(OwnRows(goals, u), u)
              /\ \A grows \in Orders(GoalRows(goals, u)) :
                    ResultFor(out, u, transactions, grows)
                        = ResultFor(out, u, OwnRows(transactions, u), grows)
        /\ \E grows \in Orders(GoalRows(OwnRows(goals, 1), 1)) :
              out.res = ResultFor(out, 1, OwnRows(transactions, 1), grows)

\* a response over a store that holds transactions and goals of both users,
\* those of user 2 dated in the range of the computation
C25_Witness ==
    /\ out.op = "goals_plan"
    /\ OwnRows(transactions, 1) # <<>> /\ OwnRows(transactions, 2) # <<>>
    /\ OwnRows(goals, 1) # <<>> /\ OwnRows(goals, 2) # <<>>
    /\ \A i \in 1..Len(transactions) :
          transactions[i].date >= today - 29 /\ transactions[i].date <= today

C25_WitnessSummary ==
    /\ out.op \in {"summary", "behaviors", "advice"}
    /\ OwnRows(transactions, 1) # <<>> /\ OwnRows(transactions, 2) # <<>>

\* C26: the analytics computations are read-only: a step that serves a
\* summary, behaviors, budget utilization, savings advice or goals plan
\* request leaves the stored transactions, budgets and goals as they were.
C26_ReadOnly ==
    [][(req.op \in Responses) =>
          /\ out'.op = req.op
          /\ transactions' = transactions
          /\ budgets' = budgets
          /\ goals' = goals]_vars

\* a call is served a second time in a row over a store with rows in all
\* three tables
C26_Witness ==
    /\ Repeated
    /\ transactions # <<>>
    /\ budgets # <<>>
    /\ goals # <<>>

(***************************************************************************)
(* The average daily spend of the advice and of the goals-plan baseline.   *)
(***************************************************************************)
\* what the summary reports as avg_daily_spend for the default range
SummaryAvgDailySpend ==
    compute_summary(transactions, 1, "None", NoDate, NoDate, today).avg_daily_spend

\* C27: the avg_daily_spend of the goals-plan baseline, and the one the
\* advice's daily target is computed from, is the expense of the trailing
\* 30-day window divided by its 30 days, which is the avg_daily_spend of the
\* summary over the default range, on however many days the rows fall.
C27_AvgDailySpendOverWindow ==
    /\ PlanDone =>
          /\ out.res.baseline.avg_daily_spend = RoundDiv(WindowExpense, 30)
          /\ out.res.baseline.avg_daily_spend = SummaryAvgDailySpend
    /\ AdviceDone =>
          out.res.targets.daily =
              RoundDiv((IF WindowIncome > 0 THEN WindowIncome ELSE 0)
                           - WindowExpense + OutReductionTotal, 30)

(***************************************************************************)
(* Budget upserts: one row per (user, month, category).                    *)
(***************************************************************************)
SameKey(a, b) == a.user_id = b.user_id /\ a.month = b.month /\ a.category = b.category

OneRowPerKey(db) == \A i, j \in 1..Len(db) : SameKey(db[i], db[j]) => i = j

\* the stored rows with the key of client c's upsert
RowsOfUpsert(c) ==
    {i \in 1..Len(budgets) :
        /\ budgets[i].user_id = 1
        /\ budgets[i].month = req[c].month
        /\ budgets[i].category = req[c].category}

\* the rows but for their amounts
Keyed(db) == [i \in 1..Len(db) |-> [db[i] EXCEPT !.amount = 0]]

\* C28: under every interleaving of budget upserts the store holds at most
\* one row per (user_id, month, category); an upsert committing on a key
\* that is stored changes nothing but the amount of that row and keeps the
\* number of rows; an upsert committing on a key that is not stored adds
\* exactly one row, with that key and its amount.
C28_OneBudgetPerKey ==
    [][/\ OneRowPerKey(budgets')
       /\ \A c \in Clients :
             (req[c].pc = "commit" /\ req'[c].pc = "idle") =>
                 IF RowsOfUpsert(c) # {}
                 THEN /\ Keyed(budgets') = Keyed(budgets)
                      /\ \A i \in 1..Len(budgets) :
                            i \notin RowsOfUpsert(c) => budgets'[i] = budgets[i]
                 ELSE /\ Len(budgets') = Len(budgets) + 1
                      /\ SubSeq(budgets', 1, Len(budgets)) = budgets
                      /\ budgets'[Len(budgets')].user_id = 1
                      /\ budgets'[Len(budgets')].month = req[c].month
                      /\ budgets'[Len(budgets')].category = req[c].category
                      /\ budgets'[Len(budgets')].amount = req[c].amount]_vars

\* two upserts of one new key in flight, both having found no row, the
\* first of them committed
C28_Witness ==
    \E c \in Clients :
        /\ req[c].pc = "commit"
        /\ req[c].existing = 0
        /\ RowsOfUpsert(c) # {}
        /\ out.op = "upsert_budget" /\ out.status = 201 /\ out.client # c

\* the second of them rejected by the constraint
C28_WitnessRejected ==
    /\ out.op = "upsert_budget"
    /\ out.status = 500
    /\ Len(budgets) = 1

(***************************************************************************)
(* Goals plan: the projection against today.                               *)
(***************************************************************************)
\* C29: with a positive monthly_net, the projected_completion of every goal
\* is today or later, on every day of the month and for every remaining
\* amount, 0 included.
C29_ProjectionNotBeforeToday ==
    (PlanDone /\ BaselineNet > 0) =>
        \A i \in 1..Len(PlanGoals) : ProjectedDate(PlanGoals[i]) >= today

(***************************************************************************)
(* Demo seeding: what a load and a clear leave behind.                     *)
(***************************************************************************)
\* the stored rows of the demo user, as entries, in stored order
DemoUserEntries ==
    LET rows == OwnRows(transactions, 1)
    IN  [i \in 1..Len(rows) |->
            [date |-> rows[i].date, amount |-> rows[i].amount,
             category |-> rows[i].category, type |-> rows[i].type]]

LoadDone == out.op = "load_demo" /\ out.status = 201

ClearDone == out.op = "clear_demo"

\* C30: after a completed load the demo user holds exactly the entries
\* that load generated, and the reported total_transactions equals
\* inserted; after a completed clear the user holds no transaction; and a
\* clear that follows a clear deletes 0 rows.
C30_SeedingIdempotent ==
    /\ [](LoadDone =>
             /\ DemoUserEntries = out.entries
             /\ out.details.total_transactions = out.details.inserted
             /\ out.details.inserted = Len(out.entries))
    /\ [](ClearDone => OwnRows(transactions, 1) = <<>>)
    /\ [][(ClearDone /\ out'.op = "clear_demo") => out'.deleted = 0]_vars

\* a load completed over a store that held rows of the demo user, from an
\* earlier load or from POST /transactions, beside a row of another user
C30_Witness ==
    /\ LoadDone
    /\ OwnRows(transactions, 2) # <<>>
    /\ \E i \in 1..Len(transactions) :
          transactions[i].user_id = 1 /\ transactions[i].id > Len(transactions)

\* a clear that deleted rows
C30_WitnessClear ==
    /\ ClearDone
    /\ out.deleted > 0
    /\ transactions # <<>>

====
